---- MODULE Spec2Model ----
(***************************************************************************)
(* Model of the health-bar measurement pipeline of                         *)
(* src/phase1_health_analyzer.py: frame iteration, bar-region extraction,  *)
(* bar analysis, the temporal filter of process_video and the phase        *)
(* detector.                                                               *)
(*                                                                         *)
(* Numbers.  A percentage of a bar of width W columns is kept as the       *)
(* integer  W * percentage,  so that 100 * cols / W is the integer         *)
(* 100 * cols, 100 % is 100 * W and the thresholds 99.5, 99.0 and 1.0 are  *)
(* compared by cross-multiplication.  The arithmetic is that of the        *)
(* rationals.  The frame width is the same for every frame of a run, so    *)
(* the bar width of a player is fixed by the configuration.                *)
(***************************************************************************)
EXTENDS Integers, Sequences, FiniteSets, TLC

\* ------------------------------------------------------------------ bounds
\* stream duration in ms (VideoProcessor.duration_ms of the opened video)
DurationMs == 2
\* timestamps followed below 0 when the interval is negative
MaxSkips == 2
\* number of frames followed when the interval is 0
MaxFrames == 4

\* largest width and height in pixels of a bar image given to analyze_bar
\* on its own
MaxBarWidth == 5
MaxBarHeight == 4

\* sampling intervals the caller supplies (argparse type=int)
Intervals == {-1, 0, 1, 2}
\* sizes of the decoded frames
FrameWidths == {1920}
FrameHeights == {720, 1080}

\* ------------------------------------------------------- program constants
REF_WIDTH == 1920
REF_HEIGHT == 1080
DEFAULT_P1_BAR == <<160, 95, 892, 113>>
DEFAULT_P2_BAR == <<1035, 95, 1768, 113>>
FLASH_BRIGHTNESS_THRESHOLD == 200
FLASH_DIFF_THRESHOLD == 50
BLACKOUT_BRIGHTNESS == 30

Phase == {"intro", "round_start", "battle", "ko", "round_end", "match_end"}

\* Python's None where a record (frame, crop, pair of bar states, reading) is
\* expected, where a brightness is expected, and where a player name is
None == [is_none |-> TRUE]
NoBrightness == -1
NoPlayer == "None"

\* configurations: the defaults, and a --p1-bar whose y2 lies below the
\* 1920x1080 reference canvas
Configs ==
  { [p1_bar |-> DEFAULT_P1_BAR, p2_bar |-> DEFAULT_P2_BAR],
    [p1_bar |-> <<160, 95, 892, 1081>>, p2_bar |-> DEFAULT_P2_BAR] }

\* ------------------------------------------------------------ arithmetic
\* Python int() of the quotient n / d, d > 0: truncation toward zero
TruncDiv(n, d) == IF n >= 0 THEN n \div d ELSE -((-n) \div d)

Max(a, b) == IF a >= b THEN a ELSE b
Min(a, b) == IF a <= b THEN a ELSE b
Abs(a) == IF a >= 0 THEN a ELSE -a

\* ------------------------------------------------------ bar region extractor
\* _extract_bar: the scaled rectangle, or None when it leaves the frame
extract_bar(w, h, coords) ==
  LET x1 == TruncDiv(coords[1] * w, REF_WIDTH)
      x2 == TruncDiv(coords[3] * w, REF_WIDTH)
      y1 == TruncDiv(coords[2] * h, REF_HEIGHT)
      y2 == TruncDiv(coords[4] * h, REF_HEIGHT)
  IN  IF x1 < 0 \/ y1 < 0 \/ x2 > w \/ y2 > h
        THEN None
        ELSE [x1 |-> x1, y1 |-> y1, x2 |-> x2, y2 |-> y2]

\* bar_img.shape of a crop
CropWidth(c) == c.x2 - c.x1
CropHeight(c) == c.y2 - c.y1

\* ------------------------------------------------------------ frame content
\* What a cropped bar image of W columns and H rows shows: the number of
\* columns active for each class after the column vote, and the number of
\* pixels of the gold, health and damage masks.
MkBar(black, red, gold, healthCols, H) ==
  [black_cols |-> black, red_cols |-> red, gold_cols |-> gold,
   gold_px |-> gold * H, health_px |-> healthCols * H, damage_px |-> red * H]

\* sample bar images of player 1 for a crop of W columns and H rows
SampleBars1(W, H) ==
  LET s  == W \div 200        \* below 0.5 %
      t  == W \div 100        \* between 0.5 % and 1 %
      m  == W \div 10         \* about 10 %
  IN  { MkBar(0, 0, W, W, H),                    \* full gold bar
        MkBar(1, 1, 0, W - 2, H),                \* one black and one red column
        MkBar(t - 1, 1, 0, W - t, H),            \* health in [99.0, 99.5)
        MkBar(m, m, 0, W - 2 * m, H),            \* 10 % lost, 10 % red
        MkBar(W - s - m, m, 0, s, H),            \* nearly empty, red visible
        MkBar(W - s, m, 0, 0, H),                \* black and red overlap
        MkBar(W, 0, 0, 0, H) }                   \* all black

\* sample bar images of player 2
SampleBars2(W, H) ==
  LET s  == W \div 200
      m  == W \div 10
  IN  { MkBar(0, 0, W, W, H),
        MkBar(m, m, 0, W - 2 * m, H),
        MkBar(W - s - m, m, 0, s, H) }

\* (full-image mean brightness, top-band mean brightness) of a frame
Light == { <<20, 60>>, <<100, 100>>, <<220, 220>> }

BarContents1(crop) ==
  IF crop = None THEN {None} ELSE SampleBars1(CropWidth(crop), CropHeight(crop))
BarContents2(crop) ==
  IF crop = None THEN {None} ELSE SampleBars2(CropWidth(crop), CropHeight(crop))

\* a decoded frame: its size, its brightness and what its two bar crops show
Frame(w, h, l, b1, b2) ==
  [w |-> w, h |-> h, avg |-> l[1], top |-> l[2], p1 |-> b1, p2 |-> b2]

\* ------------------------------------------------------ colour segmenter
\* HSV bounds (OpenCV: H 0..180, S 0..255, V 0..255)
GOLD_HSV_LOWER == <<15, 50, 150>>
GOLD_HSV_UPPER == <<35, 255, 255>>
HEALTH_HSV_LOWER == <<15, 40, 120>>
HEALTH_HSV_UPPER == <<65, 255, 255>>
DAMAGE_HSV_LOWER_1 == <<0, 80, 100>>
DAMAGE_HSV_UPPER_1 == <<15, 255, 255>>
DAMAGE_HSV_LOWER_2 == <<170, 80, 100>>
DAMAGE_HSV_UPPER_2 == <<180, 255, 255>>
LOST_HSV_LOWER == <<0, 0, 0>>
LOST_HSV_UPPER == <<180, 100, 40>>

\* cv2.inRange on one pixel
inRange(px, lower, upper) ==
  \A i \in 1..3 : lower[i] <= px[i] /\ px[i] <= upper[i]

black_mask(px) == inRange(px, LOST_HSV_LOWER, LOST_HSV_UPPER)
red_mask(px) ==
  \/ inRange(px, DAMAGE_HSV_LOWER_1, DAMAGE_HSV_UPPER_1)
  \/ inRange(px, DAMAGE_HSV_LOWER_2, DAMAGE_HSV_UPPER_2)
gold_mask(px) == inRange(px, GOLD_HSV_LOWER, GOLD_HSV_UPPER)
health_mask(px) == inRange(px, HEALTH_HSV_LOWER, HEALTH_HSV_UPPER)

\* the mask of that name on one pixel
InMask(m, px) ==
  CASE m = "black" -> black_mask(px)
    [] m = "red" -> red_mask(px)
    [] m = "gold" -> gold_mask(px)
    [] m = "health" -> health_mask(px)

\* HSV pixels: black, red, gold, green, grey
PxBlack == <<0, 0, 0>>
PxRed == <<0, 255, 255>>
PxGold == <<25, 200, 255>>
PxGreen == <<50, 200, 200>>
PxGrey == <<0, 0, 128>>
Palette == {PxBlack, PxRed, PxGold, PxGreen, PxGrey}

\* A pixel column of height H: k pixels of one colour above H - k pixels
\* of another.  The columns of one colour, and those with black, red or
\* gold above green.
Columns(H) ==
  {[top |-> a, k |-> 0, rest |-> a] : a \in Palette}
    \cup {[top |-> a, k |-> k, rest |-> PxGreen] :
            a \in {PxBlack, PxRed, PxGold}, k \in 1..(H - 1)}

\* A bar image of height H and width W: n columns like `left` followed by
\* W - n columns like `right`.
BarImagesOf(H, W) ==
  {[height |-> H, width |-> W, left |-> c[1], n |-> n, right |-> c[2]] :
     c \in Columns(H) \X Columns(H), n \in 0..W}

BarImages ==
  UNION {BarImagesOf(H, W) : H \in 1..MaxBarHeight, W \in 1..MaxBarWidth}

\* cv2.countNonZero of a mask on one column
countNonZero(m, col, H) ==
  (IF InMask(m, col.top) THEN col.k ELSE 0) + (IF InMask(m, col.rest) THEN H - col.k ELSE 0)

\* int(height * COLUMN_THRESHOLD_RATIO), the ratio being 0.30
ColumnThreshold(H) == (3 * H) \div 10

\* sum(columns) of analyze_bar for one mask: the columns whose count
\* reaches the threshold
ColumnCount(m, img) ==
  (IF countNonZero(m, img.left, img.height) >= ColumnThreshold(img.height)
     THEN img.n ELSE 0)
  + (IF countNonZero(m, img.right, img.height) >= ColumnThreshold(img.height)
       THEN img.width - img.n ELSE 0)

\* cv2.countNonZero of a mask on the whole image
PixelCount(m, img) ==
  img.n * countNonZero(m, img.left, img.height)
  + (img.width - img.n) * countNonZero(m, img.right, img.height)

\* what analyze_bar and _has_valid_colors count on a bar image
BarOfImage(img) ==
  [black_cols |-> ColumnCount("black", img),
   red_cols |-> ColumnCount("red", img),
   gold_cols |-> ColumnCount("gold", img),
   gold_px |-> PixelCount("gold", img),
   health_px |-> PixelCount("health", img),
   damage_px |-> PixelCount("red", img)]

\* ----------------------------------------------------------- bar analysis
Clamp(x, W) == Max(0, Min(100 * W, x))

\* faulty variant: the health is not clamped to [0, 100]
analyze_bar_unclamped(bar, W) ==
  LET confirmed_damage_pct == IF W > 0 THEN 100 * bar.black_cols ELSE 0
      uncommitted_damage_pct == IF W > 0 THEN 100 * bar.red_cols ELSE 0
      health_pct == 100 * W - confirmed_damage_pct - uncommitted_damage_pct
  IN  [health |-> health_pct,
       damage |-> Clamp(uncommitted_damage_pct, W),
       confirmed_damage |-> Clamp(confirmed_damage_pct, W),
       is_full |-> (10 * bar.gold_cols > 8 * W)]

\* HealthBarAnalyzer.analyze_bar on a crop of W columns
analyze_bar(bar, W) ==
  LET confirmed_damage_pct == IF W > 0 THEN 100 * bar.black_cols ELSE 0
      uncommitted_damage_pct == IF W > 0 THEN 100 * bar.red_cols ELSE 0
      health_pct == 100 * W - confirmed_damage_pct - uncommitted_damage_pct
  IN  [health |-> Clamp(health_pct, W),
       damage |-> Clamp(uncommitted_damage_pct, W),
       confirmed_damage |-> Clamp(confirmed_damage_pct, W),
       is_full |-> (10 * bar.gold_cols > 8 * W)]

\* HealthBarAnalyzer.analyze_frame
analyze_frame(frame, cfg) ==
  LET p1_bar == extract_bar(frame.w, frame.h, cfg.p1_bar)
      p2_bar == extract_bar(frame.w, frame.h, cfg.p2_bar)
  IN  IF p1_bar = None \/ p2_bar = None
        THEN None
        ELSE [p1 |-> analyze_bar(frame.p1, CropWidth(p1_bar)),
              p2 |-> analyze_bar(frame.p2, CropWidth(p2_bar))]

\* width of a player's bar in the frames of this run
BarW(cfg, coords) ==
  LET w == CHOOSE x \in FrameWidths : TRUE
  IN  TruncDiv(coords[3] * w, REF_WIDTH) - TruncDiv(coords[1] * w, REF_WIDTH)
W1(cfg) == BarW(cfg, cfg.p1_bar)
W2(cfg) == BarW(cfg, cfg.p2_bar)

\* comparisons of a stored percentage x of a bar of width W
GE995(x, W) == 10 * x >= 995 * W
GE990(x, W) == x >= 99 * W
LE010(x, W) == x <= W

\* faulty variant: only player 1 is looked at
is_ko_p1_only(p1_state, p2_state, cfg) ==
  IF LE010(p1_state.health, W1(cfg)) THEN "P1" ELSE NoPlayer

\* HealthBarAnalyzer.is_ko
is_ko(p1_state, p2_state, cfg) ==
  IF LE010(p1_state.health, W1(cfg)) THEN "P1"
  ELSE IF LE010(p2_state.health, W2(cfg)) THEN "P2"
  ELSE NoPlayer

\* --------------------------------------------------------- phase detector
\* GameStateDetector._has_valid_colors on a crop
has_valid_colors(bar, crop) ==
  LET total_pixels == CropHeight(crop) * CropWidth(crop)
      valid_pixels == bar.gold_px + bar.health_px + bar.damage_px
  IN  100 * valid_pixels > 5 * total_pixels

\* GameStateDetector.is_gauge_visible
is_gauge_visible(frame, cfg) ==
  LET p1_bar == extract_bar(frame.w, frame.h, cfg.p1_bar)
      p2_bar == extract_bar(frame.w, frame.h, cfg.p2_bar)
  IN  IF p1_bar = None \/ p2_bar = None
        THEN FALSE
        ELSE has_valid_colors(frame.p1, p1_bar) /\ has_valid_colors(frame.p2, p2_bar)

\* faulty variant: the first call tests the brightness against 200
detect_screen_flash_first_call(frame, prevb) ==
  LET current_brightness == frame.top
      is_flash ==
        IF prevb # NoBrightness
          THEN Abs(current_brightness - prevb) > FLASH_DIFF_THRESHOLD
               \/ current_brightness > FLASH_BRIGHTNESS_THRESHOLD
          ELSE current_brightness > FLASH_BRIGHTNESS_THRESHOLD
  IN  [is_flash |-> is_flash, prev_brightness |-> current_brightness]

\* GameStateDetector.detect_screen_flash: the result and the stored brightness
detect_screen_flash(frame, prevb) ==
  LET current_brightness == frame.top
      is_flash ==
        IF prevb # NoBrightness
          THEN Abs(current_brightness - prevb) > FLASH_DIFF_THRESHOLD
               \/ current_brightness > FLASH_BRIGHTNESS_THRESHOLD
          ELSE FALSE
  IN  [is_flash |-> is_flash, prev_brightness |-> current_brightness]

\* faulty variant: ROUND_END is kept after a ROUND_END
detect_phase_round_end_sticky(frame, cfg, prevb, prev_phase, p1_health, p2_health, prev_p1, prev_p2) ==
  IF ~is_gauge_visible(frame, cfg)
    THEN [phase |-> "intro", prev_brightness |-> prevb,
          visible |-> FALSE, is_flash |-> FALSE]
    ELSE
      LET fl == detect_screen_flash(frame, prevb)
      IN  [phase |->
             IF fl.is_flash THEN "round_start"
             ELSE IF prev_phase \in {"ko", "round_end"}
                     /\ GE990(p1_health, W1(cfg)) /\ GE990(p2_health, W2(cfg))
               THEN "round_start"
             ELSE IF LE010(p1_health, W1(cfg)) \/ LE010(p2_health, W2(cfg))
               THEN "ko"
             ELSE IF prev_phase \in {"ko", "round_end"} THEN "round_end"
             ELSE "battle",
           prev_brightness |-> fl.prev_brightness,
           visible |-> TRUE, is_flash |-> fl.is_flash]

\* faulty variant: the flash test runs before the visibility test
detect_phase_flash_first(frame, cfg, prevb, prev_phase, p1_health, p2_health, prev_p1, prev_p2) ==
  LET fl == detect_screen_flash(frame, prevb)
  IN  IF ~is_gauge_visible(frame, cfg)
        THEN [phase |-> "intro", prev_brightness |-> fl.prev_brightness,
              visible |-> FALSE, is_flash |-> FALSE]
        ELSE
          [phase |->
             IF fl.is_flash THEN "round_start"
             ELSE IF prev_phase \in {"ko", "round_end"}
                     /\ GE990(p1_health, W1(cfg)) /\ GE990(p2_health, W2(cfg))
               THEN "round_start"
             ELSE IF LE010(p1_health, W1(cfg)) \/ LE010(p2_health, W2(cfg))
               THEN "ko"
             ELSE IF prev_phase = "ko" THEN "round_end"
             ELSE "battle",
           prev_brightness |-> fl.prev_brightness,
           visible |-> TRUE, is_flash |-> fl.is_flash]

\* faulty variant: the ROUND_END rule is tried before the KO rule
detect_phase_round_end_first(frame, cfg, prevb, prev_phase, p1_health, p2_health, prev_p1, prev_p2) ==
  IF ~is_gauge_visible(frame, cfg)
    THEN [phase |-> "intro", prev_brightness |-> prevb,
          visible |-> FALSE, is_flash |-> FALSE]
    ELSE
      LET fl == detect_screen_flash(frame, prevb)
      IN  [phase |->
             IF fl.is_flash THEN "round_start"
             ELSE IF prev_phase \in {"ko", "round_end"}
                     /\ GE990(p1_health, W1(cfg)) /\ GE990(p2_health, W2(cfg))
               THEN "round_start"
             ELSE IF prev_phase = "ko" THEN "round_end"
             ELSE IF LE010(p1_health, W1(cfg)) \/ LE010(p2_health, W2(cfg))
               THEN "ko"
             ELSE "battle",
           prev_brightness |-> fl.prev_brightness,
           visible |-> TRUE, is_flash |-> fl.is_flash]

\* faulty variant: after a KO the detector stays at KO
detect_phase_ko_sticky(frame, cfg, prevb, prev_phase, p1_health, p2_health, prev_p1, prev_p2) ==
  IF ~is_gauge_visible(frame, cfg)
    THEN [phase |-> "intro", prev_brightness |-> prevb,
          visible |-> FALSE, is_flash |-> FALSE]
    ELSE
      LET fl == detect_screen_flash(frame, prevb)
      IN  [phase |->
             IF fl.is_flash THEN "round_start"
             ELSE IF prev_phase \in {"ko", "round_end"}
                     /\ GE990(p1_health, W1(cfg)) /\ GE990(p2_health, W2(cfg))
               THEN "round_start"
             ELSE IF LE010(p1_health, W1(cfg)) \/ LE010(p2_health, W2(cfg))
               THEN "ko"
             ELSE IF prev_phase = "ko" THEN "ko"
             ELSE "battle",
           prev_brightness |-> fl.prev_brightness,
           visible |-> TRUE, is_flash |-> fl.is_flash]

\* faulty variant: MATCH_END is returned where ROUND_END belongs
detect_phase_match_end(frame, cfg, prevb, prev_phase, p1_health, p2_health, prev_p1, prev_p2) ==
  IF ~is_gauge_visible(frame, cfg)
    THEN [phase |-> "intro", prev_brightness |-> prevb,
          visible |-> FALSE, is_flash |-> FALSE]
    ELSE
      LET fl == detect_screen_flash(frame, prevb)
      IN  [phase |->
             IF fl.is_flash THEN "round_start"
             ELSE IF prev_phase \in {"ko", "round_end"}
                     /\ GE990(p1_health, W1(cfg)) /\ GE990(p2_health, W2(cfg))
               THEN "round_start"
             ELSE IF LE010(p1_health, W1(cfg)) \/ LE010(p2_health, W2(cfg))
               THEN "ko"
             ELSE IF prev_phase = "ko" THEN "match_end"
             ELSE "battle",
           prev_brightness |-> fl.prev_brightness,
           visible |-> TRUE, is_flash |-> fl.is_flash]

\* GameStateDetector.detect_phase: the phase, the stored brightness and the
\* results of the two tests it makes
detect_phase(frame, cfg, prevb, prev_phase, p1_health, p2_health, prev_p1, prev_p2) ==
  IF ~is_gauge_visible(frame, cfg)
    THEN [phase |-> "intro", prev_brightness |-> prevb,
          visible |-> FALSE, is_flash |-> FALSE]
    ELSE
      LET fl == detect_screen_flash(frame, prevb)
      IN  [phase |->
             IF fl.is_flash THEN "round_start"
             ELSE IF prev_phase \in {"ko", "round_end"}
                     /\ GE990(p1_health, W1(cfg)) /\ GE990(p2_health, W2(cfg))
               THEN "round_start"
             ELSE IF LE010(p1_health, W1(cfg)) \/ LE010(p2_health, W2(cfg))
               THEN "ko"
             ELSE IF prev_phase = "ko" THEN "round_end"
             ELSE "battle",
           prev_brightness |-> fl.prev_brightness,
           visible |-> TRUE, is_flash |-> fl.is_flash]

\* ------------------------------------------------------------------ state
VARIABLES
  config,            \* AnalyzerConfig built by main
  interval_ms,       \* sampling interval given to process_video
  pc,                \* "open" before VideoProcessor is constructed, "failed"
                     \* when its constructor raised, "loop" inside the frame
                     \* loop, "done" after the CSV is written
  cap,               \* the decode handle vp.cap: None before cv2.VideoCapture
                     \* is called, else whether it is open and the number of
                     \* calls of its release()
  csv,               \* the output file: None while it does not exist, else
                     \* [rows |-> the number of data rows written to it]
  timestamp_ms,      \* iterate_frames: the next timestamp to sample
  frame_count,       \* frames yielded so far, which is len(results)
  reading,           \* results[-1], None while results is empty
  current_round,
  current_phase,
  prev_p1_health,
  prev_p2_health,
  prev_p1_confirmed,
  prev_p2_confirmed,
  after_blackout,
  prev_brightness,   \* GameStateDetector.prev_brightness
  bar_states,        \* locals of the last loop body: analyze_frame's result,
  is_blackout,       \* the blackout test,
  both_full,         \* the round-start test,
  new_phase,         \* detect_phase's result,
  gauge_visible,     \* and inside detect_phase: is_gauge_visible's result
  screen_flash,      \* and detect_screen_flash's (FALSE when it was not called)
  frame_top,         \* mean brightness of the top band of the frame the last
                     \* loop body worked on (NoBrightness before the first)
  ko_emitted,        \* whether results holds a reading whose phase is KO
  rerun,             \* a run of process_video followed by a second run over
                     \* the same video (None when a single run is followed)
  call,              \* a single call of one function: its arguments,
  ret,               \* and what it returned (None when no call is followed)
  extract,           \* the locals of a call of extract_events (None when
                     \* none is followed)
  combo              \* the locals of a call of detect_combo_sequences
                     \* (None when none is followed)

vars == << config, interval_ms, pc, cap, csv, timestamp_ms, frame_count,
           reading,
           current_round, current_phase, prev_p1_health, prev_p2_health,
           prev_p1_confirmed, prev_p2_confirmed, after_blackout,
           prev_brightness, bar_states, is_blackout, both_full, new_phase,
           gauge_visible, screen_flash, frame_top, ko_emitted, rerun, call,
           ret, extract, combo >>

\* what a run of process_video reads and writes
run_vars == << config, interval_ms, pc, cap, csv, timestamp_ms, frame_count,
           reading,
               current_round, current_phase, prev_p1_health, prev_p2_health,
               prev_p1_confirmed, prev_p2_confirmed, after_blackout,
               prev_brightness, bar_states, is_blackout, both_full, new_phase,
               gauge_visible, screen_flash, frame_top, ko_emitted >>

filter_vars == << current_round, current_phase, prev_p1_health, prev_p2_health,
                  prev_p1_confirmed, prev_p2_confirmed, after_blackout >>

HealthReading(ts, round, phase, p1h, p1d, p2h, p2d) ==
  [timestamp_ms |-> ts, round_num |-> round, phase |-> phase,
   p1_health |-> p1h, p1_damage |-> p1d, p2_health |-> p2h, p2_damage |-> p2d]

\* the state in which process_video is entered
InitRun ==
  /\ pc = "open"
  /\ cap = None
  /\ csv = None
  /\ timestamp_ms = 0
  /\ frame_count = 0
  /\ reading = None
  /\ current_round = 0
  /\ current_phase = "intro"
  /\ prev_p1_health = 0
  /\ prev_p2_health = 0
  /\ prev_p1_confirmed = 0
  /\ prev_p2_confirmed = 0
  /\ after_blackout = TRUE
  /\ prev_brightness = NoBrightness
  /\ bar_states = None
  /\ is_blackout = FALSE
  /\ both_full = FALSE
  /\ new_phase = "intro"
  /\ gauge_visible = FALSE
  /\ screen_flash = FALSE
  /\ frame_top = NoBrightness
  /\ ko_emitted = FALSE

Init ==
  /\ config \in Configs
  /\ interval_ms \in Intervals
  /\ InitRun
  /\ rerun = None
  /\ call = None
  /\ ret = None
  /\ extract = None
  /\ combo = None

\* ------------------------------------------------------------ frame source
\* faulty variant: the output file is created before the video is opened
OpenVideoCreatesCsv ==
  /\ pc = "open"
  /\ \E exists \in BOOLEAN, isOpened \in BOOLEAN :
       /\ pc' = IF exists /\ isOpened THEN "loop" ELSE "failed"
       /\ cap' = IF exists THEN [isOpened |-> isOpened, releases |-> 0]
                           ELSE None
  /\ csv' = [rows |-> 0]
  /\ UNCHANGED << config, interval_ms, timestamp_ms, frame_count, reading,
                  filter_vars, prev_brightness, bar_states, is_blackout,
                  both_full, new_phase, gauge_visible, screen_flash,
                  frame_top, ko_emitted >>

\* process_video enters its with block: VideoProcessor.__init__ raises when
\* the file does not exist or the capture cannot be opened, and the
\* exception leaves process_video
OpenVideo ==
  /\ pc = "open"
  /\ \E exists \in BOOLEAN, isOpened \in BOOLEAN :
       /\ pc' = IF exists /\ isOpened THEN "loop" ELSE "failed"
       /\ cap' = IF exists THEN [isOpened |-> isOpened, releases |-> 0]
                           ELSE None
  /\ UNCHANGED << config, interval_ms, csv, timestamp_ms, frame_count, reading,
                  filter_vars, prev_brightness, bar_states, is_blackout,
                  both_full, new_phase, gauge_visible, screen_flash,
                  frame_top, ko_emitted >>

\* VideoProcessor.get_frame: None outside [0, duration_ms]; inside, the
\* decoder's read may fail (ok = FALSE)
get_frame(ts, ok, frame) ==
  IF ts < 0 \/ ts > DurationMs THEN None
  ELSE IF ~ok THEN None
  ELSE frame

\* faulty variant: a lower raw value is accepted
HysteresisLowers(raw_confirmed, prev_confirmed, damage) ==
  IF raw_confirmed > prev_confirmed /\ damage = 0 THEN prev_confirmed
  ELSE raw_confirmed

\* faulty variant: a rise is accepted without red damage
HysteresisNoRed(raw_confirmed, prev_confirmed, damage) ==
  IF raw_confirmed < prev_confirmed THEN prev_confirmed
  ELSE raw_confirmed

\* confirmed-damage hysteresis of one player (process_video)
Hysteresis(raw_confirmed, prev_confirmed, damage) ==
  IF raw_confirmed < prev_confirmed THEN prev_confirmed
  ELSE IF raw_confirmed > prev_confirmed /\ damage = 0 THEN prev_confirmed
  ELSE raw_confirmed

\* faulty variant: the previous health is kept whenever the rule applies
FilterHealthKeepsPrevious(confirmed, damage, prev_health, ab, W) ==
  LET health == 100 * W - confirmed - damage
      mono == IF ~ab /\ prev_health > 0 THEN prev_health ELSE health
  IN  Clamp(mono, W)

\* faulty variant: the monotonicity rule is left out
FilterHealthNoMono(confirmed, damage, prev_health, ab, W) ==
  Clamp(100 * W - confirmed - damage, W)

\* faulty variant: the clamp to [0, 100] is left out
FilterHealthNoClamp(confirmed, damage, prev_health, ab, W) ==
  LET health == 100 * W - confirmed - damage
  IN  IF ~ab /\ prev_health > 0 /\ health > prev_health
        THEN prev_health ELSE health

\* faulty variant: the monotonicity rule is applied while after_blackout is set
FilterHealthAlwaysMono(confirmed, damage, prev_health, ab, W) ==
  LET health == 100 * W - confirmed - damage
      mono == IF prev_health > 0 /\ health > prev_health
                THEN prev_health ELSE health
  IN  Clamp(mono, W)

\* health of one player after the monotonicity rule and the clamp
FilterHealth(confirmed, damage, prev_health, ab, W) ==
  LET health == 100 * W - confirmed - damage
      mono == IF ~ab /\ prev_health > 0 /\ health > prev_health
                THEN prev_health ELSE health
  IN  Clamp(mono, W)

\* faulty variant: the timestamp is advanced twice when the frame is None
SkipFrameTwice ==
  /\ pc = "loop"
  /\ timestamp_ms <= DurationMs
  /\ timestamp_ms > -MaxSkips
  /\ \E ok \in BOOLEAN : get_frame(timestamp_ms, ok, Frame(0, 0, <<0, 0>>, None, None)) = None
  /\ timestamp_ms' = timestamp_ms + 2 * interval_ms
  /\ UNCHANGED << config, interval_ms, pc, cap, csv, frame_count, reading, filter_vars,
                  prev_brightness, bar_states, is_blackout, both_full,
                  new_phase, gauge_visible, screen_flash,
                  frame_top, ko_emitted >>

\* iterate_frames: a timestamp whose frame is None is passed over
SkipFrame ==
  /\ pc = "loop"
  /\ timestamp_ms <= DurationMs
  /\ timestamp_ms > -MaxSkips
  /\ \E ok \in BOOLEAN : get_frame(timestamp_ms, ok, Frame(0, 0, <<0, 0>>, None, None)) = None
  /\ timestamp_ms' = timestamp_ms + interval_ms
  /\ UNCHANGED << config, interval_ms, pc, cap, csv, frame_count, reading, filter_vars,
                  prev_brightness, bar_states, is_blackout, both_full,
                  new_phase, gauge_visible, screen_flash,
                  frame_top, ko_emitted >>

\* faulty variant: the default reading also stores INTRO as the current phase
DefaultReadingSetsPhase(frame) ==
  /\ pc = "loop"
  /\ timestamp_ms <= DurationMs
  /\ frame_count < MaxFrames
  /\ get_frame(timestamp_ms, TRUE, frame) # None
  /\ analyze_frame(frame, config) = None
  /\ bar_states' = None
  /\ frame_top' = frame.top
  /\ reading' = HealthReading(timestamp_ms, current_round, "intro", 0, 0, 0, 0)
  /\ current_phase' = "intro"
  /\ frame_count' = frame_count + 1
  /\ timestamp_ms' = timestamp_ms + interval_ms
  /\ UNCHANGED << config, interval_ms, pc, cap, csv, current_round, prev_p1_health,
                  prev_p2_health, prev_p1_confirmed, prev_p2_confirmed,
                  after_blackout, prev_brightness,
                  is_blackout, both_full, new_phase, gauge_visible, screen_flash,
                  ko_emitted >>

\* loop body of process_video when analyze_frame returns None
DefaultReading(frame) ==
  /\ pc = "loop"
  /\ timestamp_ms <= DurationMs
  /\ frame_count < MaxFrames
  /\ get_frame(timestamp_ms, TRUE, frame) # None
  /\ analyze_frame(frame, config) = None
  /\ bar_states' = None
  /\ frame_top' = frame.top
  /\ reading' = HealthReading(timestamp_ms, current_round, "intro", 0, 0, 0, 0)
  /\ frame_count' = frame_count + 1
  /\ timestamp_ms' = timestamp_ms + interval_ms
  /\ UNCHANGED << config, interval_ms, pc, cap, csv, filter_vars, prev_brightness,
                  is_blackout, both_full, new_phase, gauge_visible, screen_flash,
                  ko_emitted >>

\* faulty variant: the round-start reset clears after_blackout but not the trackers
TemporalFilterNoReset(raw, avg_brightness, cfg, ab, prev_c1, prev_c2, prev_h1, prev_h2) ==
  LET dark == avg_brightness < BLACKOUT_BRIGHTNESS
      ab1 == ab \/ dark
      bf == GE995(raw.p1.health, W1(cfg)) /\ GE995(raw.p2.health, W2(cfg))
      reset == ab1 /\ bf
      ab2 == IF reset THEN FALSE ELSE ab1
      base1 == IF ab2 THEN 0 ELSE prev_c1
      base2 == IF ab2 THEN 0 ELSE prev_c2
      p1_confirmed == Hysteresis(raw.p1.confirmed_damage, base1, raw.p1.damage)
      p2_confirmed == Hysteresis(raw.p2.confirmed_damage, base2, raw.p2.damage)
  IN  [is_blackout |-> dark,
       both_full |-> bf,
       after_blackout |-> ab2,
       p1_confirmed |-> p1_confirmed,
       p2_confirmed |-> p2_confirmed,
       p1_health |-> FilterHealth(p1_confirmed, raw.p1.damage, prev_h1, ab2, W1(cfg)),
       p2_health |-> FilterHealth(p2_confirmed, raw.p2.damage, prev_h2, ab2, W2(cfg))]

\* faulty variant: the tracked values are not forced to 0 after a blackout
TemporalFilterNoForce(raw, avg_brightness, cfg, ab, prev_c1, prev_c2, prev_h1, prev_h2) ==
  LET dark == avg_brightness < BLACKOUT_BRIGHTNESS
      ab1 == ab \/ dark
      bf == GE995(raw.p1.health, W1(cfg)) /\ GE995(raw.p2.health, W2(cfg))
      reset == ab1 /\ bf
      ab2 == IF reset THEN FALSE ELSE ab1
      base1 == IF reset THEN 0 ELSE prev_c1
      base2 == IF reset THEN 0 ELSE prev_c2
      p1_confirmed == Hysteresis(raw.p1.confirmed_damage, base1, raw.p1.damage)
      p2_confirmed == Hysteresis(raw.p2.confirmed_damage, base2, raw.p2.damage)
  IN  [is_blackout |-> dark,
       both_full |-> bf,
       after_blackout |-> ab2,
       p1_confirmed |-> p1_confirmed,
       p2_confirmed |-> p2_confirmed,
       p1_health |-> FilterHealth(p1_confirmed, raw.p1.damage, prev_h1, ab2, W1(cfg)),
       p2_health |-> FilterHealth(p2_confirmed, raw.p2.damage, prev_h2, ab2, W2(cfg))]

\* faulty variant: a dark frame keeps after_blackout set though both bars are full
TemporalFilterDarkWins(raw, avg_brightness, cfg, ab, prev_c1, prev_c2, prev_h1, prev_h2) ==
  LET dark == avg_brightness < BLACKOUT_BRIGHTNESS
      ab1 == ab \/ dark
      bf == GE995(raw.p1.health, W1(cfg)) /\ GE995(raw.p2.health, W2(cfg))
      reset == ab1 /\ bf /\ ~dark
      ab2 == IF reset THEN FALSE ELSE ab1
      base1 == IF reset \/ ab2 THEN 0 ELSE prev_c1
      base2 == IF reset \/ ab2 THEN 0 ELSE prev_c2
      p1_confirmed == Hysteresis(raw.p1.confirmed_damage, base1, raw.p1.damage)
      p2_confirmed == Hysteresis(raw.p2.confirmed_damage, base2, raw.p2.damage)
  IN  [is_blackout |-> dark,
       both_full |-> bf,
       after_blackout |-> ab2,
       p1_confirmed |-> p1_confirmed,
       p2_confirmed |-> p2_confirmed,
       p1_health |-> FilterHealth(p1_confirmed, raw.p1.damage, prev_h1, ab2, W1(cfg)),
       p2_health |-> FilterHealth(p2_confirmed, raw.p2.damage, prev_h2, ab2, W2(cfg))]

\* temporal filter of process_video for one frame: blackout and round-start
\* detection, forcing after a blackout, hysteresis, monotonicity, clamp
TemporalFilter(raw, avg_brightness, cfg, ab, prev_c1, prev_c2, prev_h1, prev_h2) ==
  LET dark == avg_brightness < BLACKOUT_BRIGHTNESS
      ab1 == ab \/ dark
      bf == GE995(raw.p1.health, W1(cfg)) /\ GE995(raw.p2.health, W2(cfg))
      reset == ab1 /\ bf
      ab2 == IF reset THEN FALSE ELSE ab1
      base1 == IF reset \/ ab2 THEN 0 ELSE prev_c1
      base2 == IF reset \/ ab2 THEN 0 ELSE prev_c2
      p1_confirmed == Hysteresis(raw.p1.confirmed_damage, base1, raw.p1.damage)
      p2_confirmed == Hysteresis(raw.p2.confirmed_damage, base2, raw.p2.damage)
  IN  [is_blackout |-> dark,
       both_full |-> bf,
       after_blackout |-> ab2,
       p1_confirmed |-> p1_confirmed,
       p2_confirmed |-> p2_confirmed,
       p1_health |-> FilterHealth(p1_confirmed, raw.p1.damage, prev_h1, ab2, W1(cfg)),
       p2_health |-> FilterHealth(p2_confirmed, raw.p2.damage, prev_h2, ab2, W2(cfg))]

\* the BarState rebuilt after the filter
BarState(health, damage, confirmed_damage, full) ==
  [health |-> health, damage |-> damage,
   confirmed_damage |-> confirmed_damage, is_full |-> full]

\* faulty variant: every ROUND_START of the detector starts a new round
NextRoundOnEveryStart(round, phase, detected) ==
  IF detected = "round_start" THEN round + 1 ELSE round

\* round transition check of process_video
NextRound(round, phase, detected) ==
  IF phase \in {"ko", "round_end"} /\ detected = "round_start"
    THEN round + 1 ELSE round

\* KO override of process_video
OverridePhase(detected, ko_player) ==
  IF ko_player # NoPlayer THEN "ko" ELSE detected

\* loop body of process_video for a frame whose bars were extracted
ProcessFrame(frame) ==
  /\ pc = "loop"
  /\ timestamp_ms <= DurationMs
  /\ frame_count < MaxFrames
  /\ get_frame(timestamp_ms, TRUE, frame) # None
  /\ \E raw \in {analyze_frame(frame, config)} :
       /\ raw # None
       /\ \E f \in {TemporalFilter(raw, frame.avg, config, after_blackout,
                                   prev_p1_confirmed, prev_p2_confirmed,
                                   prev_p1_health, prev_p2_health)} :
          \E p1_state \in {BarState(f.p1_health, raw.p1.damage, f.p1_confirmed, raw.p1.is_full)},
             p2_state \in {BarState(f.p2_health, raw.p2.damage, f.p2_confirmed, raw.p2.is_full)} :
          \E det \in {detect_phase(frame, config, prev_brightness, current_phase,
                                   p1_state.health, p2_state.health,
                                   prev_p1_health, prev_p2_health)} :
          \E round \in {NextRound(current_round, current_phase, det.phase)},
             phase \in {OverridePhase(det.phase, is_ko(p1_state, p2_state, config))} :
            /\ bar_states' = raw
            /\ is_blackout' = f.is_blackout
            /\ both_full' = f.both_full
            /\ after_blackout' = f.after_blackout
            /\ prev_p1_confirmed' = f.p1_confirmed
            /\ prev_p2_confirmed' = f.p2_confirmed
            /\ new_phase' = det.phase
            /\ gauge_visible' = det.visible
            /\ screen_flash' = det.is_flash
            /\ frame_top' = frame.top
            /\ ko_emitted' = (ko_emitted \/ phase = "ko")
            /\ prev_brightness' = det.prev_brightness
            /\ current_round' = round
            /\ current_phase' = phase
            /\ reading' = HealthReading(timestamp_ms, round, phase,
                                        p1_state.health, p1_state.damage,
                                        p2_state.health, p2_state.damage)
            /\ prev_p1_health' = p1_state.health
            /\ prev_p2_health' = p2_state.health
  /\ frame_count' = frame_count + 1
  /\ timestamp_ms' = timestamp_ms + interval_ms
  /\ UNCHANGED << config, interval_ms, pc, cap, csv >>

\* faulty variant: an exception leaves the frame loop with the handle open
RaiseInLoopLeaks ==
  /\ pc = "loop"
  /\ timestamp_ms <= DurationMs
  /\ frame_count < MaxFrames
  /\ pc' = "raised"
  /\ UNCHANGED << config, interval_ms, cap, csv, timestamp_ms, frame_count,
                  reading, filter_vars, prev_brightness, bar_states,
                  is_blackout, both_full, new_phase, gauge_visible,
                  screen_flash,
                  frame_top, ko_emitted >>

\* an exception is raised while a frame is got or processed: it leaves the
\* with block, whose __exit__ closes the VideoProcessor, and process_video
RaiseInLoop ==
  /\ pc = "loop"
  /\ timestamp_ms <= DurationMs
  /\ frame_count < MaxFrames
  /\ pc' = "raised"
  /\ cap' = [cap EXCEPT !.releases = @ + 1]
  /\ UNCHANGED << config, interval_ms, csv, timestamp_ms, frame_count,
                  reading, filter_vars, prev_brightness, bar_states,
                  is_blackout, both_full, new_phase, gauge_visible,
                  screen_flash,
                  frame_top, ko_emitted >>

\* iterate_frames is exhausted: the with block is left and the CSV written,
\* one row for each element of results
Finish ==
  /\ pc = "loop"
  /\ timestamp_ms > DurationMs
  /\ pc' = "done"
  /\ cap' = [cap EXCEPT !.releases = @ + 1]
  /\ csv' = [rows |-> frame_count]
  /\ UNCHANGED << config, interval_ms, timestamp_ms, frame_count, reading,
                  filter_vars, prev_brightness, bar_states, is_blackout,
                  both_full, new_phase, gauge_visible, screen_flash,
                  frame_top, ko_emitted >>

\* the loop body on the frame iterate_frames yields
LoopBody ==
  \E w \in FrameWidths, h \in FrameHeights, l \in Light :
    \E b1 \in BarContents1(extract_bar(w, h, config.p1_bar)),
       b2 \in BarContents2(extract_bar(w, h, config.p2_bar)) :
      /\ \/ DefaultReading(Frame(w, h, l, b1, b2))
         \/ ProcessFrame(Frame(w, h, l, b1, b2))
      /\ UNCHANGED << rerun, call, ret, extract, combo >>

Next ==
  \/ OpenVideo /\ UNCHANGED << rerun, call, ret, extract, combo >>
  \/ SkipFrame /\ UNCHANGED << rerun, call, ret, extract, combo >>
  \/ LoopBody
  \/ RaiseInLoop /\ UNCHANGED << rerun, call, ret, extract, combo >>
  \/ Finish /\ UNCHANGED << rerun, call, ret, extract, combo >>

Spec == Init /\ [][Next]_vars

\* ------------------------------------------------- one function on its own
\* frame sizes and reference rectangles given to _extract_bar on its own
ExtractWidths == {1280, 1920}
ExtractHeights == {180, 720, 1080}
RectXs == {-5, 160, 892, 1925}
RectYs == {-5, 95, 113, 1085}
Rects == {<<x1, y1, x2, y2>> : x1 \in RectXs, y1 \in RectYs, x2 \in RectXs, y2 \in RectYs}

\* top-band mean brightness values given to detect_screen_flash on its own
Brightness == {0, 60, 110, 111, 200, 201, 255}

\* HealthBarAnalyzer.analyze_bar called on a bar image
CallAnalyzeBar ==
  /\ call = None
  /\ \E img \in BarImages :
       /\ call' = [op |-> "analyze_bar", bar_img |-> img]
       /\ ret' = analyze_bar(BarOfImage(img), img.width)
  /\ UNCHANGED << run_vars, rerun, extract, combo >>

\* _extract_bar called on a frame of size w x h
CallExtractBar ==
  /\ call = None
  /\ \E w \in ExtractWidths, h \in ExtractHeights, coords \in Rects :
       /\ call' = [op |-> "_extract_bar", w |-> w, h |-> h, coords |-> coords]
       /\ ret' = extract_bar(w, h, coords)
  /\ UNCHANGED << run_vars, rerun, extract, combo >>

\* GameStateDetector.detect_screen_flash called on a detector whose stored
\* brightness is prevb
CallDetectScreenFlash ==
  /\ call = None
  /\ \E top \in Brightness, prevb \in Brightness \cup {NoBrightness} :
       /\ call' = [op |-> "detect_screen_flash", top |-> top, prev_brightness |-> prevb]
       /\ ret' = detect_screen_flash(Frame(REF_WIDTH, REF_HEIGHT, <<top, top>>, None, None),
                                     prevb)
  /\ UNCHANGED << run_vars, rerun, extract, combo >>

\* A pixel column of height H with k pixels of one colour above grey ones
ThinColumns(H) ==
  {[top |-> a, k |-> k, rest |-> PxGrey] :
     a \in {PxBlack, PxRed, PxGold, PxGreen}, k \in 1..H}

\* Bar crops that are grey but for their n left columns
GaugeImagesOf(H, W) ==
  {[height |-> H, width |-> W, left |-> c, n |-> n,
    right |-> [top |-> PxGrey, k |-> 0, rest |-> PxGrey]] :
     c \in ThinColumns(H), n \in 0..W}

GaugeImages ==
  UNION {GaugeImagesOf(H, W) : H \in 1..MaxBarHeight, W \in 1..MaxBarWidth}

\* GameStateDetector._has_valid_colors called on a bar crop
CallHasValidColors ==
  /\ call = None
  /\ \E img \in GaugeImages :
       /\ call' = [op |-> "_has_valid_colors", bar_img |-> img]
       /\ ret' = [valid |-> has_valid_colors(BarOfImage(img),
                                             [x1 |-> 0, y1 |-> 0,
                                              x2 |-> img.width,
                                              y2 |-> img.height])]
  /\ UNCHANGED << run_vars, rerun, extract, combo >>

NextCall ==
  \/ CallAnalyzeBar
  \/ CallExtractBar
  \/ CallDetectScreenFlash
  \/ CallHasValidColors

SpecCall == Init /\ [][NextCall]_vars

\* --------------------------------------------- process_video called twice
\* bar images and brightness of the frames of the video that is read twice
RerunContents1(crop) ==
  IF crop = None THEN {None} ELSE SampleBars2(CropWidth(crop), CropHeight(crop))
RerunContents2(crop) ==
  IF crop = None THEN {None}
  ELSE {MkBar(0, 0, CropWidth(crop), CropWidth(crop), CropHeight(crop))}
RerunLight == { <<20, 60>>, <<220, 220>> }

InitRerun ==
  /\ config \in Configs
  /\ interval_ms \in {i \in Intervals : i > 0}
  /\ InitRun
  /\ rerun = [run |-> 1, pos |-> 0, video |-> << >>, results |-> << >>, first |-> << >>]
  /\ call = None
  /\ ret = None
  /\ extract = None
  /\ combo = None

\* iterate_frames passes over a timestamp: in the first run the video is
\* found to have no frame there, in the second run it is the same video
RerunSkip ==
  /\ SkipFrame
  /\ IF rerun.run = 1
       THEN rerun' = [rerun EXCEPT !.pos = @ + 1, !.video = Append(@, None)]
       ELSE /\ rerun.pos < Len(rerun.video)
            /\ rerun.video[rerun.pos + 1] = None
            /\ rerun' = [rerun EXCEPT !.pos = @ + 1]
  /\ UNCHANGED << call, ret, extract, combo >>

\* the loop body on the frame of the video at this timestamp; the reading
\* is appended to results
RerunBody ==
  /\ \/ /\ rerun.run = 1
        /\ \E w \in FrameWidths, h \in FrameHeights, l \in RerunLight :
             \E b1 \in RerunContents1(extract_bar(w, h, config.p1_bar)),
                b2 \in RerunContents2(extract_bar(w, h, config.p2_bar)) :
               /\ \/ DefaultReading(Frame(w, h, l, b1, b2))
                  \/ ProcessFrame(Frame(w, h, l, b1, b2))
               /\ rerun' = [rerun EXCEPT !.pos = @ + 1,
                                         !.video = Append(@, Frame(w, h, l, b1, b2)),
                                         !.results = Append(@, reading')]
     \/ /\ rerun.run = 2
        /\ rerun.pos < Len(rerun.video)
        /\ rerun.video[rerun.pos + 1] # None
        /\ \/ DefaultReading(rerun.video[rerun.pos + 1])
           \/ ProcessFrame(rerun.video[rerun.pos + 1])
        /\ rerun' = [rerun EXCEPT !.pos = @ + 1, !.results = Append(@, reading')]
  /\ UNCHANGED << call, ret, extract, combo >>

\* faulty variant: the second run goes on with the detector of the first
SecondRunKeepsDetector ==
  /\ pc = "done"
  /\ rerun.run = 1
  /\ pc' = "loop"
  /\ cap' = [isOpened |-> TRUE, releases |-> 0]
  /\ timestamp_ms' = 0
  /\ frame_count' = 0
  /\ reading' = None
  /\ current_round' = 0
  /\ current_phase' = "intro"
  /\ prev_p1_health' = 0
  /\ prev_p2_health' = 0
  /\ prev_p1_confirmed' = 0
  /\ prev_p2_confirmed' = 0
  /\ after_blackout' = TRUE
  /\ bar_states' = None
  /\ is_blackout' = FALSE
  /\ both_full' = FALSE
  /\ new_phase' = "intro"
  /\ gauge_visible' = FALSE
  /\ screen_flash' = FALSE
  /\ frame_top' = NoBrightness
  /\ ko_emitted' = FALSE
  /\ rerun' = [rerun EXCEPT !.run = 2, !.pos = 0, !.results = << >>,
                            !.first = rerun.results]
  /\ UNCHANGED << config, interval_ms, csv, prev_brightness, call, ret,
                  extract, combo >>

\* process_video is entered again on the same video, which opens as it did
\* before: results is a new list, the analyzer and the detector are new
\* objects and the filter state is initialised again
SecondRun ==
  /\ pc = "done"
  /\ rerun.run = 1
  /\ pc' = "loop"
  /\ cap' = [isOpened |-> TRUE, releases |-> 0]
  /\ timestamp_ms' = 0
  /\ frame_count' = 0
  /\ reading' = None
  /\ current_round' = 0
  /\ current_phase' = "intro"
  /\ prev_p1_health' = 0
  /\ prev_p2_health' = 0
  /\ prev_p1_confirmed' = 0
  /\ prev_p2_confirmed' = 0
  /\ after_blackout' = TRUE
  /\ prev_brightness' = NoBrightness
  /\ bar_states' = None
  /\ is_blackout' = FALSE
  /\ both_full' = FALSE
  /\ new_phase' = "intro"
  /\ gauge_visible' = FALSE
  /\ screen_flash' = FALSE
  /\ frame_top' = NoBrightness
  /\ ko_emitted' = FALSE
  /\ rerun' = [rerun EXCEPT !.run = 2, !.pos = 0, !.results = << >>,
                            !.first = rerun.results]
  /\ UNCHANGED << config, interval_ms, csv, call, ret, extract, combo >>

NextRerun ==
  \/ OpenVideo /\ UNCHANGED << rerun, call, ret, extract, combo >>
  \/ RerunSkip
  \/ RerunBody
  \/ Finish /\ UNCHANGED << rerun, call, ret, extract, combo >>
  \/ SecondRun

SpecRerun == InitRerun /\ [][NextRerun]_vars

\* ----------------------------------------------------------- extract_events
\* Healths and damages are counted in tenths of a percent, the unit of the
\* one-decimal text of the health CSV.

MaxRows == 4

\* defaults of extract_events
min_damage == 20
merge_window_ms == 500
\* the thresholds of the round-start and the KO test
START_FULL == 995
START_PREV_BELOW == 900
KO_HEALTH == 10
\* prev_p1_health, prev_p2_health and prev_round before the first row
NoHealth == -1
NoRound == -1

\* the time between two rows of the input, and the healths of a row
RowDeltas == {250, 600}
RowHealths == { <<1000, 1000>>, <<990, 1000>>, <<980, 990>>, <<850, 850>>,
                <<5, 850>>, <<850, 5>>, <<5, 5>> }

Event(ts, event_type, target, damage, p1_health, p2_health) ==
  [timestamp_ms |-> ts, event_type |-> event_type, target |-> target,
   damage |-> damage, p1_health |-> p1_health, p2_health |-> p2_health]

\* faulty variant: the pending damage is recorded whatever its amount
flush_pending_any(e) ==
  [e EXCEPT
     !.events =
        IF e.pending_p1_damage > 0 \/ e.pending_p2_damage > 0
          THEN Append(@,
                 IF e.pending_p1_damage >= min_damage /\ e.pending_p2_damage >= min_damage
                   THEN Event(e.pending_start_ms, "exchange", "both",
                              Max(e.pending_p1_damage, e.pending_p2_damage),
                              e.pending_p1_health, e.pending_p2_health)
                 ELSE IF e.pending_p1_damage >= e.pending_p2_damage
                   THEN Event(e.pending_start_ms, "p1_damage", "p1",
                              e.pending_p1_damage,
                              e.pending_p1_health, e.pending_p2_health)
                 ELSE Event(e.pending_start_ms, "p2_damage", "p2",
                            e.pending_p2_damage,
                            e.pending_p1_health, e.pending_p2_health))
          ELSE @,
     !.pending_p1_damage = 0,
     !.pending_p2_damage = 0]

\* flush_pending: the pending damage becomes an event when it reaches
\* min_damage for a player, and is dropped otherwise; round(damage, 1) of
\* a sum of tenths is the sum
flush_pending(e) ==
  [e EXCEPT
     !.events =
        IF e.pending_p1_damage >= min_damage \/ e.pending_p2_damage >= min_damage
          THEN Append(@,
                 IF e.pending_p1_damage >= min_damage /\ e.pending_p2_damage >= min_damage
                   THEN Event(e.pending_start_ms, "exchange", "both",
                              Max(e.pending_p1_damage, e.pending_p2_damage),
                              e.pending_p1_health, e.pending_p2_health)
                 ELSE IF e.pending_p1_damage >= min_damage
                   THEN Event(e.pending_start_ms, "p1_damage", "p1",
                              e.pending_p1_damage,
                              e.pending_p1_health, e.pending_p2_health)
                 ELSE Event(e.pending_start_ms, "p2_damage", "p2",
                            e.pending_p2_damage,
                            e.pending_p1_health, e.pending_p2_health))
          ELSE @,
     !.pending_p1_damage = 0,
     !.pending_p2_damage = 0]

\* the round-start test of a row
is_round_start(e, p1_health, p2_health) ==
  /\ e.prev_round # NoRound
  /\ e.prev_p1_health # NoHealth
  /\ p1_health >= START_FULL
  /\ p2_health >= START_FULL
  /\ (e.prev_p1_health < START_PREV_BELOW \/ e.prev_p2_health < START_PREV_BELOW)

\* the damage step of a row that is not a round start
accumulate(e, ts, p1_health, p2_health) ==
  LET p1_took == e.prev_p1_health - p1_health
      p2_took == e.prev_p2_health - p2_health
      f == IF e.pending_start_ms > 0 /\ ts - e.pending_start_ms > merge_window_ms
             THEN flush_pending(e) ELSE e
  IN  IF p1_took > 0 \/ p2_took > 0
        THEN [f EXCEPT
                !.pending_start_ms =
                   IF f.pending_p1_damage = 0 /\ f.pending_p2_damage = 0
                     THEN ts ELSE @,
                !.pending_p1_damage = @ + Max(0, p1_took),
                !.pending_p2_damage = @ + Max(0, p2_took),
                !.pending_p1_health = p1_health,
                !.pending_p2_health = p2_health]
        ELSE e

\* the KO step of a row that is not a round start
detect_ko(e, ts, p1_health, p2_health) ==
  IF p1_health <= KO_HEALTH /\ e.prev_p1_health > KO_HEALTH
    THEN [flush_pending(e) EXCEPT
            !.events = Append(@, Event(ts, "ko", "p1", 0, p1_health, p2_health))]
  ELSE IF p2_health <= KO_HEALTH /\ e.prev_p2_health > KO_HEALTH
    THEN [flush_pending(e) EXCEPT
            !.events = Append(@, Event(ts, "ko", "p2", 0, p1_health, p2_health))]
  ELSE e

\* faulty variant: the round start is recorded before the pending damage
extract_row_start_first(e, ts, round_num, p1_health, p2_health) ==
  LET body ==
        IF is_round_start(e, p1_health, p2_health)
          THEN flush_pending(
                 [e EXCEPT !.events = Append(@, Event(ts, "round_start", "-", 0,
                                                     p1_health, p2_health))])
        ELSE IF e.prev_p1_health # NoHealth
          THEN detect_ko(accumulate(e, ts, p1_health, p2_health),
                         ts, p1_health, p2_health)
        ELSE e
  IN  [body EXCEPT !.prev_p1_health = p1_health,
                   !.prev_p2_health = p2_health,
                   !.prev_round = round_num]

\* the body of the loop over the rows
extract_row(e, ts, round_num, p1_health, p2_health) ==
  LET body ==
        IF is_round_start(e, p1_health, p2_health)
          THEN [flush_pending(e) EXCEPT
                  !.events = Append(@, Event(ts, "round_start", "-", 0,
                                            p1_health, p2_health))]
        ELSE IF e.prev_p1_health # NoHealth
          THEN detect_ko(accumulate(e, ts, p1_health, p2_health),
                         ts, p1_health, p2_health)
        ELSE e
  IN  [body EXCEPT !.prev_p1_health = p1_health,
                   !.prev_p2_health = p2_health,
                   !.prev_round = round_num]

\* first_round_start_idx when no event is a round_start
NoIndex == -1

\* the index, counted from 0, of the first round_start event
first_round_start_idx(events) ==
  IF \E k \in 1..Len(events) : events[k].event_type = "round_start"
    THEN (CHOOSE k \in 1..Len(events) :
            /\ events[k].event_type = "round_start"
            /\ \A l \in 1..(k - 1) : events[l].event_type # "round_start") - 1
    ELSE NoIndex

\* faulty variant: the events are cut after the first round start
exclude_before_first_start_late(events) ==
  IF first_round_start_idx(events) = NoIndex THEN events
  ELSE SubSeq(events, first_round_start_idx(events) + 2, Len(events))

\* events[first_round_start_idx:], all events when there is no round_start
exclude_before_first_start(events) ==
  IF first_round_start_idx(events) = NoIndex THEN events
  ELSE SubSeq(events, first_round_start_idx(events) + 1, Len(events))

\* extract_events is entered and has read its input; no row is looked at yet
InitExtract ==
  /\ config \in Configs
  /\ interval_ms \in Intervals
  /\ InitRun
  /\ rerun = None
  /\ call = None
  /\ ret = None
  /\ combo = None
  /\ extract = [pc |-> "rows", i |-> 0,
                row |-> [timestamp_ms |-> 0, round |-> 0,
                         p1_health |-> NoHealth, p2_health |-> NoHealth],
                prev_p1_health |-> NoHealth, prev_p2_health |-> NoHealth,
                prev_round |-> NoRound,
                pending_p1_damage |-> 0, pending_p2_damage |-> 0,
                pending_start_ms |-> 0,
                pending_p1_health |-> 0, pending_p2_health |-> 0,
                events |-> << >>, first_round_start_idx |-> NoIndex]

\* one pass of the loop over the rows; the first row is at time 0
ExtractRow ==
  /\ extract.pc = "rows"
  /\ extract.i < MaxRows
  /\ \E dt \in RowDeltas, h \in RowHealths :
       LET ts == IF extract.i = 0 THEN 0 ELSE extract.row.timestamp_ms + dt
           e == extract_row(extract, ts, 0, h[1], h[2])
       IN  extract' = [e EXCEPT !.i = @ + 1,
                                !.row = [timestamp_ms |-> ts, round |-> 0,
                                         p1_health |-> h[1], p2_health |-> h[2]]]
  /\ UNCHANGED << run_vars, rerun, call, ret, combo >>

\* the input has no row: extract_events returns and writes nothing
NoRows ==
  /\ extract.pc = "rows"
  /\ extract.i = 0
  /\ extract' = [extract EXCEPT !.pc = "returned"]
  /\ UNCHANGED << run_vars, rerun, call, ret, combo >>

\* the rows are used up: the pending damage is flushed, the events before
\* the first round start are dropped and the others written
WriteEvents ==
  /\ extract.pc = "rows"
  /\ extract.i >= 1
  /\ extract' = [flush_pending(extract) EXCEPT
                   !.pc = "written",
                   !.first_round_start_idx = first_round_start_idx(flush_pending(extract).events),
                   !.events = exclude_before_first_start(@)]
  /\ UNCHANGED << run_vars, rerun, call, ret, combo >>

NextExtract == ExtractRow \/ NoRows \/ WriteEvents

SpecExtract == InitExtract /\ [][NextExtract]_vars

\* --------------------------------------------------- detect_combo_sequences
MaxEvents == 4

COMBO_WINDOW_MS == 1500
\* combo_position None
NoPosition == "none"

\* event_type and target of the events of an input list, and the time
\* from an event to the next
ComboKinds == { <<"p1_damage", "p1">>, <<"p2_damage", "p2">>, <<"ko", "p1">> }
ComboGaps == {1500, 1501}

\* the event lists of at most k events
RECURSIVE EventLists(_)
EventLists(k) ==
  IF k = 0 THEN { << >> }
  ELSE LET shorter == EventLists(k - 1)
       IN  shorter \cup
           { Append(l, [timestamp_ms |-> IF l = << >> THEN 0
                                         ELSE l[Len(l)].timestamp_ms + g,
                        event_type |-> kd[1], target |-> kd[2]]) :
               l \in {x \in shorter : Len(x) = k - 1},
               kd \in ComboKinds, g \in ComboGaps }

\* the inner loop: the index j at which it stops, indices counted from 0
RECURSIVE scan_combo(_, _, _)
scan_combo(events, current_target, j) ==
  IF j < Len(events)
     /\ events[j + 1].event_type \in {"p1_damage", "p2_damage"}
     /\ events[j + 1].target = current_target
     /\ events[j + 1].timestamp_ms - events[j].timestamp_ms <= COMBO_WINDOW_MS
    THEN scan_combo(events, current_target, j + 1)
    ELSE j

\* faulty variant: two hits make a combo
mark_combo_two_hits(result, i, j) ==
  IF j - i >= 2
    THEN [idx \in 1..Len(result) |->
            IF idx - 1 >= i /\ idx - 1 < j
              THEN [is_combo |-> TRUE,
                    combo_position |-> IF idx - 1 = i THEN "start"
                                       ELSE IF idx - 1 = j - 1 THEN "end"
                                       ELSE "mid",
                    combo_hits |-> j - i]
              ELSE result[idx]]
    ELSE result

\* the entries of combo_indices, which are i .. j - 1, are marked when
\* there are three of them or more
mark_combo(result, i, j) ==
  IF j - i >= 3
    THEN [idx \in 1..Len(result) |->
            IF idx - 1 >= i /\ idx - 1 < j
              THEN [is_combo |-> TRUE,
                    combo_position |-> IF idx - 1 = i THEN "start"
                                       ELSE IF idx - 1 = j - 1 THEN "end"
                                       ELSE "mid",
                    combo_hits |-> j - i]
              ELSE result[idx]]
    ELSE result

\* detect_combo_sequences is entered with a list of events
InitCombo ==
  /\ config \in Configs
  /\ interval_ms \in Intervals
  /\ InitRun
  /\ rerun = None
  /\ call = None
  /\ ret = None
  /\ extract = None
  /\ \E events \in EventLists(MaxEvents) :
       combo = [pc |-> "enter", events |-> events, n |-> Len(events),
                i |-> 0, j |-> 0, result |-> << >>]

\* every event gets the entry of an event outside a combo
ComboDefaults ==
  /\ combo.pc = "enter"
  /\ combo' = [combo EXCEPT
                 !.pc = "loop",
                 !.result = [idx \in 1..combo.n |->
                               [is_combo |-> FALSE, combo_position |-> NoPosition,
                                combo_hits |-> 1]]]
  /\ UNCHANGED << run_vars, rerun, call, ret, extract >>

\* a pass of the outer loop on an event that is not a damage event
ComboSkip ==
  /\ combo.pc = "loop"
  /\ combo.i < combo.n
  /\ combo.events[combo.i + 1].event_type \notin {"p1_damage", "p2_damage"}
  /\ combo' = [combo EXCEPT !.i = @ + 1]
  /\ UNCHANGED << run_vars, rerun, call, ret, extract >>

\* a pass of the outer loop on a damage event: the inner loop, the marking
\* and the step to the event after the run
ComboRun ==
  /\ combo.pc = "loop"
  /\ combo.i < combo.n
  /\ combo.events[combo.i + 1].event_type \in {"p1_damage", "p2_damage"}
  /\ LET j == scan_combo(combo.events, combo.events[combo.i + 1].target, combo.i + 1)
     IN  combo' = [combo EXCEPT
                     !.j = j,
                     !.result = mark_combo(@, combo.i, j),
                     !.i = IF j > combo.i + 1 THEN j ELSE combo.i + 1]
  /\ UNCHANGED << run_vars, rerun, call, ret, extract >>

\* the outer loop is left and result returned
ComboReturn ==
  /\ combo.pc = "loop"
  /\ combo.i >= combo.n
  /\ combo' = [combo EXCEPT !.pc = "returned"]
  /\ UNCHANGED << run_vars, rerun, call, ret, extract >>

NextCombo == ComboDefaults \/ ComboSkip \/ ComboRun \/ ComboReturn

SpecCombo == InitCombo /\ [][NextCombo]_vars

\* ------------------------------------------------------------ properties
\* steps of the frame loop, told apart by what they leave in the state
Yielded == frame_count' = frame_count + 1
Processed == Yielded /\ bar_states' # None
Defaulted == Yielded /\ bar_states' = None
\* the round-start reset of the temporal filter fired on the processed frame
RoundStartReset == Processed /\ both_full' /\ (after_blackout \/ is_blackout')

FULL1 == 100 * W1(config)
FULL2 == 100 * W2(config)

\* C1 (as stated): between two consecutive emitted readings with no
\* round-start reset on the later one, neither player's health rises.
C1_HealthNeverRises ==
  [][ (Yielded /\ reading # None /\ ~RoundStartReset)
        => /\ reading'.p1_health <= reading.p1_health
           /\ reading'.p2_health <= reading.p2_health ]_vars

\* C1 (amended): between two consecutive emitted readings with no
\* round-start reset on the later one, a player's health does not rise
\* when after_blackout is clear on the later frame and the earlier health
\* is above 0 (which a default reading's is not).
C1_HealthNeverRisesOutsideBlackout ==
  [][ (Yielded /\ reading # None /\ ~RoundStartReset /\ ~after_blackout')
        => /\ reading.p1_health > 0 => reading'.p1_health <= reading.p1_health
           /\ reading.p2_health > 0 => reading'.p2_health <= reading.p2_health ]_vars

\* the monotonicity rule has held a reading down to the previous health
C1_Witness ==
  /\ frame_count >= 2
  /\ bar_states # None
  /\ ~after_blackout
  /\ ~(both_full /\ is_blackout)
  /\ reading.p1_health > 0
  /\ reading.p1_health < FULL1 - prev_p1_confirmed - reading.p1_damage

\* C2 (as stated): round_num stays or grows by 1 between consecutive
\* readings, and grows exactly when the earlier reading is KO or ROUND_END
\* and the later one ROUND_START.
C2_RoundIncrementsOnTransition ==
  [][ (Yielded /\ reading # None)
        => /\ reading'.round_num \in {reading.round_num, reading.round_num + 1}
           /\ (reading'.round_num = reading.round_num + 1)
                <=> (reading.phase \in {"ko", "round_end"}
                     /\ reading'.phase = "round_start") ]_vars

C4_ValuesInRange ==
  /\ prev_p1_confirmed \in 0..FULL1
  /\ prev_p2_confirmed \in 0..FULL2
  /\ reading # None =>
       /\ reading.p1_health \in 0..FULL1
       /\ reading.p1_damage \in 0..FULL1
       /\ reading.p2_health \in 0..FULL2
       /\ reading.p2_damage \in 0..FULL2

\* the clamp has acted: confirmed and red damage add up to more than 100
C4_Witness ==
  /\ bar_states # None
  /\ reading.p1_health = 0
  /\ prev_p1_confirmed + reading.p1_damage > FULL1

\* C5 (as stated): on a processed frame without round-start reset neither
\* tracked confirmed damage decreases.
C5_TrackedNeverDecreases ==
  [][ (Processed /\ ~RoundStartReset)
        => /\ prev_p1_confirmed' >= prev_p1_confirmed
           /\ prev_p2_confirmed' >= prev_p2_confirmed ]_vars

\* C5 (amended): on a processed frame on which after_blackout is neither
\* set nor cleared by a round-start reset, neither tracked confirmed damage
\* decreases, and a raw value below the tracked one leaves it unchanged.
C5_TrackedNeverDecreasesOutsideBlackout ==
  [][ (Processed /\ ~RoundStartReset /\ ~after_blackout')
        => /\ prev_p1_confirmed' >= prev_p1_confirmed
           /\ prev_p2_confirmed' >= prev_p2_confirmed
           /\ bar_states'.p1.confirmed_damage < prev_p1_confirmed
                => prev_p1_confirmed' = prev_p1_confirmed
           /\ bar_states'.p2.confirmed_damage < prev_p2_confirmed
                => prev_p2_confirmed' = prev_p2_confirmed ]_vars

\* a raw confirmed damage below the tracked one was read outside a blackout
C5_Witness ==
  /\ bar_states # None
  /\ ~after_blackout
  /\ ~(both_full /\ is_blackout)
  /\ bar_states.p1.confirmed_damage < prev_p1_confirmed

\* C6 (as stated): a tracked confirmed damage rises only on a frame whose
\* raw red damage is above 0, and a raw value above the tracked one with
\* no red damage leaves the tracked value unchanged.
C6_RiseNeedsRed ==
  [][ Processed
        => /\ prev_p1_confirmed' > prev_p1_confirmed => bar_states'.p1.damage > 0
           /\ prev_p2_confirmed' > prev_p2_confirmed => bar_states'.p2.damage > 0
           /\ (bar_states'.p1.confirmed_damage > prev_p1_confirmed
               /\ bar_states'.p1.damage = 0)
                => prev_p1_confirmed' = prev_p1_confirmed
           /\ (bar_states'.p2.confirmed_damage > prev_p2_confirmed
               /\ bar_states'.p2.damage = 0)
                => prev_p2_confirmed' = prev_p2_confirmed ]_vars

\* C6 (amended): a tracked confirmed damage rises only on a frame whose raw
\* red damage is above 0; a raw value above the tracked one with no red
\* damage leaves the tracked value unchanged, or at 0 when after_blackout
\* is set on that frame.
C6_RiseNeedsRedOrZero ==
  [][ Processed
        => /\ prev_p1_confirmed' > prev_p1_confirmed => bar_states'.p1.damage > 0
           /\ prev_p2_confirmed' > prev_p2_confirmed => bar_states'.p2.damage > 0
           /\ (bar_states'.p1.confirmed_damage > prev_p1_confirmed
               /\ bar_states'.p1.damage = 0)
                => prev_p1_confirmed' =
                     IF after_blackout \/ is_blackout' THEN 0 ELSE prev_p1_confirmed
           /\ (bar_states'.p2.confirmed_damage > prev_p2_confirmed
               /\ bar_states'.p2.damage = 0)
                => prev_p2_confirmed' =
                     IF after_blackout \/ is_blackout' THEN 0 ELSE prev_p2_confirmed ]_vars

\* a rise of the raw confirmed damage without red damage was turned down
C6_Witness ==
  /\ bar_states # None
  /\ ~after_blackout
  /\ prev_p1_confirmed > 0
  /\ bar_states.p1.confirmed_damage > prev_p1_confirmed
  /\ bar_states.p1.damage = 0

\* C7: a frame whose bars cannot be extracted appends the default reading
\* (INTRO, all four values 0, the current round), changes neither the
\* filter state nor the detector's stored brightness, and leaves the loop
\* at the next timestamp.
C7_DefaultReadingKeepsState ==
  [][ Defaulted
        => /\ reading' = HealthReading(timestamp_ms, current_round, "intro", 0, 0, 0, 0)
           /\ pc' = "loop"
           /\ timestamp_ms' = timestamp_ms + interval_ms
           /\ UNCHANGED << prev_p1_health, prev_p2_health, prev_p1_confirmed,
                           prev_p2_confirmed, after_blackout, current_round,
                           current_phase, prev_brightness >> ]_vars

\* a default reading was emitted in the middle of a round, after a KO
C7_Witness ==
  /\ bar_states = None
  /\ reading # None
  /\ reading.phase = "intro"
  /\ current_phase = "ko"
  /\ prev_p2_health > 0
  /\ prev_brightness # NoBrightness

\* C8: on a processed frame whose filtered health of either player is at
\* most 1.0 the reading's phase and the stored phase are KO.
C8_KoOverride ==
  (bar_states # None
   /\ (LE010(reading.p1_health, W1(config)) \/ LE010(reading.p2_health, W2(config))))
    => (reading.phase = "ko" /\ current_phase = "ko")

\* KO overrode a ROUND_START of the detector
C8_Witness ==
  /\ bar_states # None
  /\ LE010(reading.p2_health, W2(config))
  /\ ~LE010(reading.p1_health, W1(config))
  /\ new_phase = "round_start"
  /\ reading.phase = "ko"

\* the transition function of the phase detector as the specification
\* orders it
PhaseRule(visible, flash, prev_phase, h1, h2, cfg) ==
  CASE ~visible -> "intro"
    [] visible /\ flash -> "round_start"
    [] visible /\ ~flash /\ prev_phase \in {"ko", "round_end"}
         /\ GE990(h1, W1(cfg)) /\ GE990(h2, W2(cfg)) -> "round_start"
    [] OTHER ->
         IF LE010(h1, W1(cfg)) \/ LE010(h2, W2(cfg)) THEN "ko"
         ELSE IF prev_phase = "ko" THEN "round_end"
         ELSE "battle"

\* C9: detect_phase returns what the ordered rules give for the gauge
\* visibility, the flash result, the previous phase and the current
\* healths, and so depends on nothing else.
C9_DetectPhaseOrderedRules ==
  [][ Processed
        => new_phase' = PhaseRule(gauge_visible', screen_flash', current_phase,
                                  reading'.p1_health, reading'.p2_health, config) ]_vars

\* the detector answered ROUND_END: visible, no flash, after a KO
C9_Witness ==
  /\ bar_states # None
  /\ new_phase = "round_end"
  /\ gauge_visible
  /\ ~screen_flash

\* C10 (as stated): when the processed frame before had a mean brightness
\* below 30 and this processed frame has both raw healths at 99.5 or more,
\* after_blackout ends clear and each tracked confirmed damage is at most
\* this frame's raw one.
C10_ResetAfterDarkFrame ==
  [][ (Processed /\ bar_states # None /\ is_blackout /\ both_full')
        => /\ ~after_blackout'
           /\ prev_p1_confirmed' <= bar_states'.p1.confirmed_damage
           /\ prev_p2_confirmed' <= bar_states'.p2.confirmed_damage ]_vars

\* C10 (amended): when after_blackout is set as the round-start test of a
\* processed frame runs (left set by an earlier frame, or set by this
\* frame's mean brightness below 30) and both raw healths are 99.5 or more,
\* after_blackout ends clear and each tracked confirmed damage is 0 or
\* this frame's raw one.
C10_ResetWhenAfterBlackout ==
  [][ (Processed /\ (after_blackout \/ is_blackout') /\ both_full')
        => /\ ~after_blackout'
           /\ prev_p1_confirmed' \in {0, bar_states'.p1.confirmed_damage}
           /\ prev_p2_confirmed' \in {0, bar_states'.p2.confirmed_damage}
           /\ prev_p1_confirmed' <= bar_states'.p1.confirmed_damage
           /\ prev_p2_confirmed' <= bar_states'.p2.confirmed_damage ]_vars

\* a round start was confirmed in a round that had been going on
C10_Witness ==
  /\ bar_states # None
  /\ both_full
  /\ is_blackout
  /\ ~after_blackout
  /\ current_round >= 1
  /\ prev_p1_confirmed = 0

\* C12 (as stated): every Bar State built, the raw one of analyze_bar and
\* the filtered one rebuilt after the temporal filter, has
\* health = clamp(100 - confirmed_damage - damage, 0, 100).
C12_BarStateHealthFormula ==
  bar_states # None =>
    /\ bar_states.p1.health
         = Clamp(FULL1 - bar_states.p1.confirmed_damage - bar_states.p1.damage, W1(config))
    /\ bar_states.p2.health
         = Clamp(FULL2 - bar_states.p2.confirmed_damage - bar_states.p2.damage, W2(config))
    /\ reading.p1_health
         = Clamp(FULL1 - prev_p1_confirmed - reading.p1_damage, W1(config))
    /\ reading.p2_health
         = Clamp(FULL2 - prev_p2_confirmed - reading.p2_damage, W2(config))

\* C12 (amended): the raw Bar State has
\* health = clamp(100 - confirmed_damage - damage, 0, 100); the filtered one
\* has that health too, unless the monotonicity rule held it down to the
\* health of the processed frame before, which is then above 0 and below
\* the formula's value, with after_blackout clear.
C12_FilteredHealthFormulaOrHeld ==
  [][ Processed
        => /\ bar_states'.p1.health
                = Clamp(FULL1 - bar_states'.p1.confirmed_damage - bar_states'.p1.damage,
                        W1(config))
           /\ bar_states'.p2.health
                = Clamp(FULL2 - bar_states'.p2.confirmed_damage - bar_states'.p2.damage,
                        W2(config))
           /\ \/ reading'.p1_health
                   = Clamp(FULL1 - prev_p1_confirmed' - reading'.p1_damage, W1(config))
              \/ /\ ~after_blackout'
                 /\ prev_p1_health > 0
                 /\ reading'.p1_health = prev_p1_health
                 /\ prev_p1_health < FULL1 - prev_p1_confirmed' - reading'.p1_damage
           /\ \/ reading'.p2_health
                   = Clamp(FULL2 - prev_p2_confirmed' - reading'.p2_damage, W2(config))
              \/ /\ ~after_blackout'
                 /\ prev_p2_health > 0
                 /\ reading'.p2_health = prev_p2_health
                 /\ prev_p2_health < FULL2 - prev_p2_confirmed' - reading'.p2_damage ]_vars

\* player 2's filtered Bar State was held below the formula's value, and
\* player 1's raw health was brought up to 0 by the clamp
C12_Witness ==
  /\ bar_states # None
  /\ reading.p2_health > 0
  /\ reading.p2_health < FULL2 - prev_p2_confirmed - reading.p2_damage
  /\ bar_states.p1.health = 0
  /\ bar_states.p1.confirmed_damage + bar_states.p1.damage > FULL1

\* a bar rectangle the claim calls well-formed: x1 < x2, y1 < y2, inside the
\* 1920x1080 reference
ValidRect(c) ==
  /\ 0 <= c[1] /\ c[1] < c[3] /\ c[3] <= REF_WIDTH
  /\ 0 <= c[2] /\ c[2] < c[4] /\ c[4] <= REF_HEIGHT

\* C16 (as stated): a configuration with a malformed bar rectangle never
\* reaches the frame loop: the program fails before the first frame.
C16_InvalidConfigFailsFast ==
  (ValidRect(config.p1_bar) /\ ValidRect(config.p2_bar)) \/ pc \in {"open", "failed"}

\* C17 (as stated): for every interval the caller supplies the frame loop
\* ends after finitely many passes: each pass moves the timestamp towards
\* the end of the sampled range, so that duration - timestamp is a variant
\* of the loop.
C17_LoopTerminates ==
  [][ (pc = "loop" /\ pc' = "loop") => timestamp_ms' > timestamp_ms ]_vars

\* C18: detect_phase never returns MATCH_END, and neither the stored phase
\* nor the phase of a reading is MATCH_END.
C18_NoMatchEnd ==
  /\ new_phase \in Phase \ {"match_end"}
  /\ current_phase \in Phase \ {"match_end"}
  /\ reading # None => reading.phase \in Phase \ {"match_end"}

\* the detector has gone past a KO: the reading after it is ROUND_END
C18_Witness ==
  /\ reading # None
  /\ reading.phase = "round_end"
  /\ current_phase = "round_end"
  /\ new_phase = "round_end"

\* health of the reading emitted before, 0 when there is none
PrevEmitted1 == IF reading = None THEN 0 ELSE reading.p1_health
PrevEmitted2 == IF reading = None THEN 0 ELSE reading.p2_health

ActiveCols(m, img) ==
  (IF 10 * countNonZero(m, img.left, img.height) >= 3 * img.height
     THEN img.n ELSE 0)
  + (IF 10 * countNonZero(m, img.right, img.height) >= 3 * img.height
       THEN img.width - img.n ELSE 0)

\* every pixel of the image is in the mask
AllPixels(m, img) == PixelCount(m, img) = img.width * img.height
\* no pixel of the image is in the mask
NoPixels(m, img) == PixelCount(m, img) = 0

\* the image is health-coloured all over: no black, red or gold pixel
AllHealthColoured(img) ==
  /\ AllPixels("health", img)
  /\ NoPixels("black", img) /\ NoPixels("red", img) /\ NoPixels("gold", img)

\* the left 40 % of the columns are black, the others health-coloured
Left40Black(img) ==
  /\ 5 * img.n = 2 * img.width
  /\ img.left.k = 0 /\ img.left.rest = PxBlack
  /\ img.right.k = 0 /\ img.right.rest = PxGreen

\* C11 (as stated): for every bar image of width W >= 1 and height H >= 1
\* analyze_bar returns confirmed_damage = 100 blackCols / W,
\* damage = 100 redCols / W, health = clamp(100 - confirmed_damage -
\* damage, 0, 100) and is_full = (goldCols > 0.8 W); an image that is
\* health-coloured all over gives health 100, damage 0 and is_full false;
\* one whose left 40 % of columns are black, the others health-coloured,
\* gives confirmed_damage 40 and health 60.
C11_AnalyzeBarFormulas ==
  (call # None /\ call.op = "analyze_bar")
    => /\ ret.confirmed_damage = 100 * ActiveCols("black", call.bar_img)
       /\ ret.damage = 100 * ActiveCols("red", call.bar_img)
       /\ ret.health = Clamp(100 * call.bar_img.width - ret.confirmed_damage - ret.damage,
                             call.bar_img.width)
       /\ ret.is_full
            <=> (10 * ActiveCols("gold", call.bar_img) > 8 * call.bar_img.width)
       /\ AllHealthColoured(call.bar_img)
            => /\ ret.health = 100 * call.bar_img.width
               /\ ret.damage = 0
               /\ ~ret.is_full
       /\ Left40Black(call.bar_img)
            => /\ ret.confirmed_damage = 40 * call.bar_img.width
               /\ ret.health = 60 * call.bar_img.width

\* ------------------------------------------------ _extract_bar on its own
\* the rectangle scaled to a frame of size w x h
Scaled(w, h, coords) ==
  [x1 |-> TruncDiv(coords[1] * w, REF_WIDTH), y1 |-> TruncDiv(coords[2] * h, REF_HEIGHT),
   x2 |-> TruncDiv(coords[3] * w, REF_WIDTH), y2 |-> TruncDiv(coords[4] * h, REF_HEIGHT)]

\* C13 (as stated): _extract_bar returns None whenever a scaled x1 or x2
\* lies outside [0, frame width] or a scaled y1 or y2 outside
\* [0, frame height], and the scaled rectangle otherwise.
C13_ExtractBarOutsideIsNone ==
  (call # None /\ call.op = "_extract_bar")
    => LET r == Scaled(call.w, call.h, call.coords)
       IN  IF \/ r.x1 \notin 0..call.w \/ r.x2 \notin 0..call.w
              \/ r.y1 \notin 0..call.h \/ r.y2 \notin 0..call.h
             THEN ret = None
             ELSE ret = r

\* ---------------------------------------- detect_screen_flash on its own
\* C19 (as stated): detect_screen_flash returns true exactly when the
\* brightness is above 200 or differs from the stored one by more than 50,
\* on the first call too, where only the first test applies; it stores
\* the brightness.
C19_FlashOnEveryCall ==
  (call # None /\ call.op = "detect_screen_flash")
    => /\ ret.is_flash
            <=> \/ call.top > 200
                \/ /\ call.prev_brightness # NoBrightness
                   /\ Abs(call.top - call.prev_brightness) > 50
       /\ ret.prev_brightness = call.top

\* C19 (amended): on a call with a stored brightness detect_screen_flash
\* returns true exactly when the brightness is above 200 or differs from
\* the stored one by more than 50; on the first call, with none stored, it
\* returns false whatever the brightness; on every call it stores the
\* brightness.
C19_FlashNeedsStoredBrightness ==
  (call # None /\ call.op = "detect_screen_flash")
    => /\ ret.is_flash
            <=> /\ call.prev_brightness # NoBrightness
                /\ \/ call.top > 200
                   \/ Abs(call.top - call.prev_brightness) > 50
       /\ ret.prev_brightness = call.top

\* a first call on a frame brighter than 200 returned false
C19_Witness ==
  /\ call # None
  /\ call.op = "detect_screen_flash"
  /\ call.prev_brightness = NoBrightness
  /\ call.top > 200
  /\ ~ret.is_flash
  /\ ret.prev_brightness = call.top

\* ------------------------------------------------------- opening the video
\* C15: when the video file is missing or cannot be opened the failure
\* comes before any frame is processed, no output file exists then, and
\* nothing is done afterwards.
C15_OpenFailureNoOutput ==
  [][ /\ pc # "failed"
      /\ pc' = "failed"
           => /\ pc = "open"
              /\ csv' = None
              /\ frame_count' = 0
              /\ reading' = None ]_vars

\* the constructor of VideoProcessor raised
C15_Witness ==
  /\ pc = "failed"
  /\ csv = None
  /\ frame_count = 0

C21_ResetFrameHealthFull ==
  [][ RoundStartReset
        => /\ GE995(reading'.p1_health, W1(config))
           /\ GE995(reading'.p2_health, W2(config)) ]_vars

\* C22 (as stated): on a processed frame that ends with after_blackout set
\* both tracked confirmed damages end at 0.
C22_TrackedZeroWhileAfterBlackout ==
  (bar_states # None /\ after_blackout)
    => (prev_p1_confirmed = 0 /\ prev_p2_confirmed = 0)

\* C22 (amended): on a processed frame that ends with after_blackout set
\* each tracked confirmed damage is forced to 0 before the hysteresis
\* step, and so ends at the raw confirmed damage of the frame when the raw
\* red damage is above 0, and at 0 when there is none; the processed frame
\* after it does not use the value, which is forced or reset to 0 again.
C22_TrackedFromZeroWhileAfterBlackout ==
  [][ Processed
        => /\ after_blackout'
                => /\ prev_p1_confirmed'
                        = IF bar_states'.p1.damage > 0
                            THEN bar_states'.p1.confirmed_damage ELSE 0
                   /\ prev_p2_confirmed'
                        = IF bar_states'.p2.damage > 0
                            THEN bar_states'.p2.confirmed_damage ELSE 0
           /\ after_blackout
                => /\ prev_p1_confirmed' \in {0, bar_states'.p1.confirmed_damage}
                   /\ prev_p2_confirmed' \in {0, bar_states'.p2.confirmed_damage} ]_vars

\* a frame ended with after_blackout set and a tracked confirmed damage
\* above 0, taken from a bar with red damage
C22_Witness ==
  /\ bar_states # None
  /\ after_blackout
  /\ frame_count >= 2
  /\ prev_p1_confirmed > 0
  /\ prev_p1_confirmed = bar_states.p1.confirmed_damage
  /\ bar_states.p1.damage > 0

\* C23: after_blackout starts true; a processed frame leaves it false when
\* both raw healths are 99.5 or more, else true when the mean brightness
\* of the frame is below 30, else as it was; no other step changes it.
C23_AfterBlackoutLifecycle ==
  /\ after_blackout = TRUE
  /\ [][ /\ Processed
             => after_blackout' = IF both_full' THEN FALSE
                                  ELSE IF is_blackout' THEN TRUE
                                  ELSE after_blackout
         /\ ~Processed => after_blackout' = after_blackout ]_vars

\* after_blackout was set by a dark frame in the middle of a round and is
\* still set
C23_Witness ==
  /\ bar_states # None
  /\ after_blackout
  /\ is_blackout
  /\ ~both_full
  /\ frame_count >= 3
  /\ current_round >= 1

\* C24 (as stated), for a round-start reset on the frame right after a KO
\* reading: between the KO reading and the reset round_num grows by
\* exactly 1.
C24_ResetAfterKoNewRound ==
  [][ (RoundStartReset /\ reading # None /\ reading.phase = "ko")
        => reading'.round_num = reading.round_num + 1 ]_vars

\* C30: a reading has phase KO only when a health in it is at most 1.0,
\* and on a processed frame detect_phase answers KO only then.
C30_KoOnlyAtLowHealth ==
  /\ (reading # None /\ reading.phase = "ko")
       => (LE010(reading.p1_health, W1(config)) \/ LE010(reading.p2_health, W2(config)))
  /\ (bar_states # None /\ new_phase = "ko")
       => (LE010(reading.p1_health, W1(config)) \/ LE010(reading.p2_health, W2(config)))

\* the override made a KO reading of a frame for which detect_phase gave
\* ROUND_START: one player's health is at most 1, the other's above it
C30_Witness ==
  /\ bar_states # None
  /\ reading.phase = "ko"
  /\ new_phase = "round_start"
  /\ frame_count >= 2
  /\ LE010(reading.p1_health, W1(config)) # LE010(reading.p2_health, W2(config))

\* ------------------------------------------------------- the decode handle
\* C28: the handle is open and not released while the frame loop runs;
\* once the loop is left, by its end or by an exception, release() has
\* been called exactly once.
C28_HandleReleasedOnce ==
  /\ pc = "loop" => cap = [isOpened |-> TRUE, releases |-> 0]
  /\ pc \in {"done", "raised"} => cap = [isOpened |-> TRUE, releases |-> 1]

\* an exception left the frame loop after some frames were processed
C28_Witness ==
  /\ pc = "raised"
  /\ frame_count >= 2
  /\ cap # None
  /\ cap.releases = 1
  /\ csv = None

\* ------------------------------------------------------ the column vote
\* C25: in analyze_bar a column is active for a colour class exactly when
\* the number of that class's pixels in it is >= 0.30 H, for every bar
\* height H >= 1; a column with no pixel of a class is never active for
\* that class.
C25_ColumnActiveAtThreshold ==
  (call # None /\ call.op = "analyze_bar")
    => \A m \in {"black", "red", "gold"} :
         /\ ColumnCount(m, call.bar_img) = ActiveCols(m, call.bar_img)
         /\ NoPixels(m, call.bar_img) => ColumnCount(m, call.bar_img) = 0

\* C26: a bar image with no pixel of any of the four colour classes gives
\* health 100, damage 0, confirmed_damage 0 and is_full false, whatever
\* its width and height.
C26_NoColourReadsFullHealth ==
  (/\ call # None
   /\ call.op = "analyze_bar"
   /\ \A m \in {"black", "red", "gold", "health"} : NoPixels(m, call.bar_img))
    => /\ ret.health = 100 * call.bar_img.width
       /\ ret.damage = 0
       /\ ret.confirmed_damage = 0
       /\ ~ret.is_full

\* ------------------------------------------------------ gauge visibility
\* the pixel is gold, health-coloured or red
InValidClass(px) == InMask("gold", px) \/ InMask("health", px) \/ InMask("red", px)

\* the pixels of the image that are in the union of the gold, health and
\* damage masks, each counted once
UnionCount(img) ==
  LET inColumn(col) == (IF InValidClass(col.top) THEN col.k ELSE 0)
                       + (IF InValidClass(col.rest) THEN img.height - col.k ELSE 0)
  IN  img.n * inColumn(img.left) + (img.width - img.n) * inColumn(img.right)

\* C27: a bar region is visible exactly when the number of its pixels in
\* the union of the gold, health and damage classes, a pixel of several
\* classes counting once, exceeds 0.05 W H.
C27_VisibleIffUnionAboveThreshold ==
  (call # None /\ call.op = "_has_valid_colors")
    => (ret.valid <=> 100 * UnionCount(call.bar_img)
                        > 5 * call.bar_img.width * call.bar_img.height)

\* ------------------------------------------------ the stored brightness
\* C29 (as stated): after every processed frame the stored previous
\* brightness of the phase detector is that frame's top-band mean
\* brightness.
C29_StoredBrightnessIsLastProcessed ==
  [][Processed => prev_brightness' = frame_top']_vars

\* C29 (amended): a processed frame on which the gauge is visible stores
\* its top-band mean brightness; a processed frame on which the gauge is
\* not visible leaves the stored brightness as it was, so the flash test
\* compares a frame with the last processed frame before it on which the
\* gauge was visible.
C29_StoredBrightnessIsLastVisible ==
  [][Processed => prev_brightness' = IF gauge_visible' THEN frame_top'
                                                       ELSE prev_brightness]_vars

\* a processed frame without a visible gauge came after one with it and
\* left the brightness stored then
C29_Witness ==
  /\ bar_states # None
  /\ ~gauge_visible
  /\ prev_brightness # NoBrightness
  /\ prev_brightness # frame_top

\* ------------------------------------------------------------ ROUND_END
\* C31: a reading has phase ROUND_END only on a processed frame before
\* which the stored phase was KO and the reading before it was not
\* ROUND_END, and both healths of the ROUND_END reading are above 1.0.
C31_RoundEndOneFrame ==
  [][ (Yielded /\ reading'.phase = "round_end")
        => /\ Processed
           /\ current_phase = "ko"
           /\ reading # None
           /\ reading.phase # "round_end"
           /\ ~LE010(reading'.p1_health, W1(config))
           /\ ~LE010(reading'.p2_health, W2(config)) ]_vars

\* a ROUND_END reading after a KO reading that was not the first reading
C31_Witness ==
  /\ bar_states # None
  /\ reading.phase = "round_end"
  /\ ko_emitted
  /\ frame_count >= 3
  /\ ~LE010(reading.p1_health, W1(config))
  /\ ~LE010(reading.p2_health, W2(config))

\* ------------------------------------------------- health and red damage
\* C32: in every reading, for each player, health + damage is at most 100.
C32_HealthPlusDamageAtMost100 ==
  reading # None
    => /\ reading.p1_health + reading.p1_damage <= FULL1
       /\ reading.p2_health + reading.p2_damage <= FULL2

\* the monotonicity rule held the health of a reading with red damage
\* below 100 - confirmed - damage
C32_Witness ==
  /\ bar_states # None
  /\ ~after_blackout
  /\ reading.p1_damage > 0
  /\ reading.p1_health > 0
  /\ reading.p1_health < FULL1 - prev_p1_confirmed - reading.p1_damage

\* -------------------------------------------------------- the first round
\* C33: a reading has a round_num above 0 only when a KO reading was
\* emitted before it; every reading up to and including the first KO
\* reading has round_num 0.
C33_RoundZeroUntilFirstKo ==
  [][ (Yielded /\ ~ko_emitted) => reading'.round_num = 0 ]_vars

\* the first KO reading, emitted after other readings, with round_num 0
C33_Witness ==
  /\ bar_states # None
  /\ frame_count >= 3
  /\ ko_emitted
  /\ reading.phase = "ko"
  /\ reading.round_num = 0
  /\ new_phase = "round_start"

\* ------------------------------------------------- the events of a match
\* a row was read by the step
RowRead == extract # None /\ extract'.i = extract.i + 1
\* the row read is taken for a round start
StartRow == RowRead /\ is_round_start(extract, extract'.row.p1_health, extract'.row.p2_health)
\* what each player lost from the row before to the row read
Took1 == extract.prev_p1_health - extract'.row.p1_health
Took2 == extract.prev_p2_health - extract'.row.p2_health
\* the row read shows damage and is not a round start
DamageRow ==
  /\ RowRead /\ ~StartRow
  /\ extract.prev_p1_health # NoHealth
  /\ (Took1 > 0 \/ Took2 > 0)
\* the health of a player is at most 1.0 in the row read and was above it
\* in the row before
Crossed1 ==
  /\ RowRead /\ extract.prev_p1_health # NoHealth
  /\ extract'.row.p1_health <= KO_HEALTH /\ extract.prev_p1_health > KO_HEALTH
Crossed2 ==
  /\ RowRead /\ extract.prev_p2_health # NoHealth
  /\ extract'.row.p2_health <= KO_HEALTH /\ extract.prev_p2_health > KO_HEALTH
\* damage is pending and the row read is within the merge window of its
\* first row
PendingInWindow ==
  /\ (extract.pending_p1_damage > 0 \/ extract.pending_p2_damage > 0)
  /\ extract'.row.timestamp_ms - extract.pending_start_ms <= merge_window_ms
DamageTypes == {"p1_damage", "p2_damage", "exchange"}
\* the events appended by the step
Appended == SubSeq(extract'.events, Len(extract.events) + 1, Len(extract'.events))

\* C34: every damage event has a damage of min_damage or more; a damage
\* row within merge_window_ms of the first damage row of the pending
\* event is added to the pending damage, which keeps the time of its
\* first row and is not recorded by that row unless the row is a KO; a
\* damage event recorded by a row carries the time at which its damage
\* began and the damage accumulated since.
C34_MergedDamageEvents ==
  /\ [](extract # None
          => \A k \in 1..Len(extract.events) :
               extract.events[k].event_type \in DamageTypes
                 => extract.events[k].damage >= min_damage)
  /\ [][ (DamageRow /\ PendingInWindow)
           => LET acc1 == extract.pending_p1_damage + Max(0, Took1)
                  acc2 == extract.pending_p2_damage + Max(0, Took2)
              IN  IF Crossed1 \/ Crossed2
                    THEN /\ extract'.pending_p1_damage = 0
                         /\ extract'.pending_p2_damage = 0
                         /\ (acc1 >= min_damage \/ acc2 >= min_damage)
                              => /\ Len(Appended) = 2
                                 /\ Appended[1].event_type \in DamageTypes
                                 /\ Appended[1].timestamp_ms = extract.pending_start_ms
                                 /\ Appended[1].damage
                                      = IF acc1 >= min_damage /\ acc2 >= min_damage
                                          THEN Max(acc1, acc2)
                                        ELSE IF acc1 >= min_damage THEN acc1
                                        ELSE acc2
                         /\ (acc1 < min_damage /\ acc2 < min_damage)
                              => Len(Appended) = 1
                    ELSE /\ Appended = << >>
                         /\ extract'.pending_p1_damage = acc1
                         /\ extract'.pending_p2_damage = acc2
                         /\ extract'.pending_start_ms = extract.pending_start_ms ]_vars
  /\ [][ (/\ DamageRow /\ ~Crossed1 /\ ~Crossed2
          /\ extract.pending_p1_damage = 0 /\ extract.pending_p2_damage = 0)
           => /\ Appended = << >>
              /\ extract'.pending_start_ms = extract'.row.timestamp_ms
              /\ extract'.pending_p1_damage = Max(0, Took1)
              /\ extract'.pending_p2_damage = Max(0, Took2) ]_vars

\* a damage of 1.0 in each of two rows 250 ms apart was written as one
\* event of damage 2.0 with the time of the first of the two rows
C34_Witness ==
  /\ extract # None
  /\ extract.pc = "written"
  /\ \E k \in 1..Len(extract.events) :
       /\ extract.events[k].event_type = "p1_damage"
       /\ extract.events[k].damage = 20
       /\ extract.events[k].timestamp_ms = 250
       /\ extract.events[k].p1_health = 980

\* C35 (as stated): after the first round start, a row in which the health
\* of a player is at most 1.0 and was above it in the row before records
\* a ko event for that player with the time of the row, for each such
\* player, and no damage is pending after it.
C35_KoEventForEachCrossing ==
  [][ (RowRead /\ \E k \in 1..Len(extract.events) :
                    extract.events[k].event_type = "round_start")
        => /\ Crossed1
                => /\ \E k \in 1..Len(Appended) :
                        Appended[k] = Event(extract'.row.timestamp_ms, "ko", "p1", 0,
                                            extract'.row.p1_health, extract'.row.p2_health)
                   /\ extract'.pending_p1_damage = 0
                   /\ extract'.pending_p2_damage = 0
           /\ Crossed2
                => /\ \E k \in 1..Len(Appended) :
                        Appended[k] = Event(extract'.row.timestamp_ms, "ko", "p2", 0,
                                            extract'.row.p1_health, extract'.row.p2_health)
                   /\ extract'.pending_p1_damage = 0
                   /\ extract'.pending_p2_damage = 0 ]_vars

\* C36: when the rows are used up and an event is a round_start, the
\* events written are those from the first round_start on, so the first
\* of them is a round_start and none is earlier than it; when no event is
\* a round_start, all events are written.
C36_EventsFromFirstRoundStart ==
  [][ (extract # None /\ extract.pc = "rows" /\ extract'.pc = "written")
        => LET all == flush_pending(extract).events
               written == extract'.events
               dropped == Len(all) - Len(written)
           IN  /\ dropped >= 0
               /\ written = SubSeq(all, dropped + 1, Len(all))
               /\ \A k \in 1..dropped : all[k].event_type # "round_start"
               /\ IF \E k \in 1..Len(all) : all[k].event_type = "round_start"
                    THEN /\ written[1].event_type = "round_start"
                         /\ \A k \in 1..Len(written) :
                              written[k].timestamp_ms >= written[1].timestamp_ms
                    ELSE dropped = 0 ]_vars

\* events before the first round start were dropped
C36_Witness ==
  /\ extract # None
  /\ extract.pc = "written"
  /\ extract.first_round_start_idx >= 1
  /\ Len(extract.events) >= 2
  /\ extract.events[1].event_type = "round_start"

\* C37: with rows in increasing order of time, the events are in
\* non-decreasing order of time, while they are collected and when they
\* are written.
C37_EventsInTimeOrder ==
  extract # None
    => \A k \in 1..(Len(extract.events) - 1) :
         extract.events[k].timestamp_ms <= extract.events[k + 1].timestamp_ms

\* a merged damage event stands before the round start that flushed it
C37_Witness ==
  /\ extract # None
  /\ extract.pc = "written"
  /\ \E k \in 1..(Len(extract.events) - 1) :
       /\ extract.events[k].event_type \in DamageTypes
       /\ extract.events[k + 1].event_type = "round_start"
       /\ extract.events[k].timestamp_ms < extract.events[k + 1].timestamp_ms

\* ------------------------------------------------------------- the combos
\* events k and k + 1 of the list, counted from 1, follow each other in a
\* run: both are damage events for the same target, at most 1500 ms apart
Linked(events, k) ==
  /\ events[k].event_type \in {"p1_damage", "p2_damage"}
  /\ events[k + 1].event_type \in {"p1_damage", "p2_damage"}
  /\ events[k].target = events[k + 1].target
  /\ events[k + 1].timestamp_ms - events[k].timestamp_ms <= 1500
\* the first and the last event of the maximal run that holds event k
RunFirst(events, k) ==
  CHOOSE a \in 1..k :
    /\ \A l \in a..(k - 1) : Linked(events, l)
    /\ a > 1 => ~Linked(events, a - 1)
RunLast(events, k) ==
  CHOOSE b \in k..Len(events) :
    /\ \A l \in k..(b - 1) : Linked(events, l)
    /\ b < Len(events) => ~Linked(events, b)
\* what the result is to hold for event k
ComboEntry(events, k) ==
  LET a == RunFirst(events, k)
      b == RunLast(events, k)
  IN  IF events[k].event_type \in {"p1_damage", "p2_damage"} /\ b - a + 1 >= 3
        THEN [is_combo |-> TRUE,
              combo_position |-> IF k = a THEN "start"
                                 ELSE IF k = b THEN "end" ELSE "mid",
              combo_hits |-> b - a + 1]
        ELSE [is_combo |-> FALSE, combo_position |-> NoPosition, combo_hits |-> 1]

\* C38: every pass of the outer loop moves i forward, i never passes n,
\* so the loop ends; the result returned marks an event is_combo exactly
\* when it is in a maximal run of three or more damage events for one
\* target each at most 1500 ms after the one before, with position start
\* for the first, end for the last, mid for the others and combo_hits the
\* length of the run, and leaves every other event at is_combo false,
\* position None and combo_hits 1.
C38_CombosAreMaximalRuns ==
  /\ [](combo # None => combo.i <= combo.n)
  /\ [][ (combo # None /\ combo.pc = "loop" /\ combo'.pc = "loop")
           => combo'.i > combo.i ]_vars
  /\ []((combo # None /\ combo.pc = "returned")
          => /\ Len(combo.result) = combo.n
             /\ \A k \in 1..combo.n :
                  combo.result[k] = ComboEntry(combo.events, k))

\* a combo of three hits was returned for a list that goes on after it
C38_Witness ==
  /\ combo # None
  /\ combo.pc = "returned"
  /\ combo.n >= 4
  /\ \E k \in 1..(combo.n - 2) :
       /\ combo.result[k].combo_position = "start"
       /\ combo.result[k + 1].combo_position = "mid"
       /\ combo.result[k + 2].combo_position = "end"
       /\ combo.result[k].combo_hits = 3

====
